---------------------------- MODULE Spec2Model ----------------------------
(***************************************************************************)
(* Model of the multi-agent stock analysis backend: the four builders      *)
(* (market, fundamental, technical, strategy), the orchestrator that runs  *)
(* them (orchestrator/graph.py) and the strategy agent's scoring rules.    *)
(*                                                                         *)
(* Representation.                                                         *)
(*  - Python dicts are TLA+ functions; Get(d, k, default) is dict.get.     *)
(*    The empty dict {} is the function with the empty domain.             *)
(*  - Real numbers are fixed-point integers in hundredths (12.5 is 1250).  *)
(*  - Python's None is the value None below; a key that is absent from a   *)
(*    dict is absent from the function's domain.                           *)
(*  - An operator that can raise comes with a predicate <name>_raises; a   *)
(*    try/except handler is an IF on that predicate.                       *)
(*  - A text built by an f-string is the tuple of its parts; for           *)
(*    uniformity every message and factor text is such a tuple.            *)
(***************************************************************************)
EXTENDS Integers, Sequences, FiniteSets, TLC

VARIABLES
    pc,                     \* where run_analysis_pipeline stands
    ticker,                 \* its argument
    market_data,            \* the market builder's envelope, Unset before it returns
    company_name,
    task,                   \* the two coroutines handed to asyncio.gather, and the
                            \* order in which they finished
    fundamental_analysis,   \* gather's results
    technical_analysis,
    strategy_args,          \* the arguments strategy_agent.analyze was called with
    recommendation,         \* the strategy builder's envelope
    result,                 \* what run_analysis_pipeline returned
    invoked,                \* how often each builder's analyze was entered
    answers,                \* the provider's answer each builder drew
    call,                   \* the pure-function harness: the last scoring call and its result
    market_data_cache,      \* utils.market_data_cache, a dict from cache keys to results
    http                    \* the HTTP request or market-data fetch in progress

-----------------------------------------------------------------------------
(* Python values *)

\* None, kept apart from every number and label the model uses.
None == -32768

EmptyDict == <<>>

\* dict.get(k, default)
Get(d, k, default) == IF k \in DOMAIN d THEN d[k] ELSE default

\* Python truthiness of an optional number: neither None nor 0.
Truthy(x) == x # None /\ x # 0

Max(a, b) == IF a >= b THEN a ELSE b
Min(a, b) == IF a <= b THEN a ELSE b

\* round(n / d) for d > 0, ties to even, as Python's round()
RoundHalfEven(n, d) ==
    LET q == n \div d
        r == n % d
    IN  IF 2 * r < d THEN q
        ELSE IF 2 * r > d THEN q + 1
        ELSE IF q % 2 = 0 THEN q ELSE q + 1

\* hist.tail(n)
Tail_n(s, n) == IF Len(s) <= n THEN s ELSE SubSeq(s, Len(s) - n + 1, Len(s))

-----------------------------------------------------------------------------
(* BaseAgent, base_agent.py *)

\* generate_insight catches every exception of the LLM call and returns text
\* (the model's answer, a placeholder without an API key, or the error's text).
LLMInsight == "insight"

format_output(name, data, insight, confidence) ==
    [ agent |-> name, data |-> data, insight |-> insight, confidence |-> confidence,
      status |-> "success" ]

\* An error envelope that keeps the status name of the pipeline's failure.
format_error_mutant(name, error) ==
    [ agent |-> name, data |-> EmptyDict, insight |-> "", confidence |-> 0,
      status |-> "failed", error |-> error ]

format_error(name, error) ==
    [ agent |-> name, data |-> EmptyDict, insight |-> "", confidence |-> 0,
      status |-> "error", error |-> error ]

-----------------------------------------------------------------------------
(* MarketDataAgent, market_data_agent.py *)

\* _calculate_return(hist, period), periods given by their tail length; the
\* result is a percentage in hundredths, None for fewer than 2 rows.
_calculate_return(subset) ==
    IF Len(subset) < 2 THEN None
    ELSE RoundHalfEven((subset[Len(subset)] - subset[1]) * 10000, subset[1])

\* current_price = info.get('currentPrice') or info.get('regularMarketPrice', 0)
market_current_price(info) ==
    IF Truthy(Get(info, "currentPrice", None)) THEN info["currentPrice"]
    ELSE Get(info, "regularMarketPrice", 0)

\* range_52w = high_52w - low_52w if high_52w and low_52w else 0
market_range_52w(info) ==
    IF Truthy(Get(info, "fiftyTwoWeekHigh", 0)) /\ Truthy(Get(info, "fiftyTwoWeekLow", 0))
    THEN info["fiftyTwoWeekHigh"] - info["fiftyTwoWeekLow"]
    ELSE 0

\* What raises inside MarketDataAgent.analyze: the provider's info or history
\* call, get_historical_data's ValueError for an empty history, and the
\* subtraction current_price - low_52w when current_price is None.
market_analyze_raises(resp) ==
    \/ resp.info_raises
    \/ resp.hist_raises
    \/ Len(resp.closes) = 0
    \/ /\ market_range_52w(resp.info) # 0
       /\ market_current_price(resp.info) = None

market_error_text(t, resp) ==
    IF resp.info_raises THEN <<"provider error">>
    ELSE IF resp.hist_raises THEN <<"Failed to fetch historical data for ", t>>
    ELSE IF Len(resp.closes) = 0 THEN <<"No historical data available for ", t>>
    ELSE <<"unsupported operand type(s) for -: 'NoneType' and 'float'">>

market_data_of(t, resp) ==
    LET info == resp.info
        current_price == market_current_price(info)
        range_52w == market_range_52w(info)
        position_in_range ==
            IF range_52w # 0
            THEN RoundHalfEven((current_price - info["fiftyTwoWeekLow"]) * 1000, range_52w) * 10
            ELSE 5000
    IN  ("basic_info" :> [ name |-> Get(info, "longName", t) ]) @@
        ("price_data" :> [ current_price |-> current_price,
                           volume |-> Get(info, "volume", 0),
                           avg_volume |-> Get(info, "averageVolume", 0) ]) @@
        ("valuation" :> [ pe_ratio |-> IF Truthy(Get(info, "trailingPE", None))
                                       THEN info["trailingPE"] ELSE None ]) @@
        ("52_week" :> [ high |-> Get(info, "fiftyTwoWeekHigh", 0),
                        low |-> Get(info, "fiftyTwoWeekLow", 0),
                        position_percent |-> position_in_range ]) @@
        ("returns" :> ( ("ytd" :> _calculate_return(Tail_n(resp.closes, resp.ytd_rows))) @@
                        ("1_month" :> _calculate_return(Tail_n(resp.closes, 22))) @@
                        ("3_month" :> _calculate_return(Tail_n(resp.closes, 66))) @@
                        ("6_month" :> _calculate_return(Tail_n(resp.closes, 132))) @@
                        ("1_year" :> _calculate_return(resp.closes)) ))

MarketDataAgent_analyze(t, resp) ==
    IF market_analyze_raises(resp)
    THEN format_error("Market Data Agent", market_error_text(t, resp))
    ELSE format_output("Market Data Agent", market_data_of(t, resp), LLMInsight, 85)

-----------------------------------------------------------------------------
(* FundamentalAgent, fundamental_agent.py.  The provider's ratios (decimals  *)
(* such as returnOnEquity 0.15) are in hundredths: 15.                       *)

\* round(value * 100, 2), None kept
_safe_percent(value) == IF value = None THEN None ELSE value * 100

_assess_profitability(info) ==
    LET roe == Get(info, "returnOnEquity", None)
        margin == Get(info, "profitMargins", None)
    IN  IF Truthy(roe) /\ roe > 15 /\ Truthy(margin) /\ margin > 10 THEN "Strong"
        ELSE IF Truthy(roe) /\ roe > 10 /\ Truthy(margin) /\ margin > 5 THEN "Good"
        ELSE IF Truthy(roe) /\ roe > 0 THEN "Moderate"
        ELSE "Weak"

_assess_valuation(pe, peg, pb) ==
    IF pe = None THEN "Unable to assess"
    ELSE IF pe < 0 THEN "Negative earnings"
    ELSE IF Truthy(peg) /\ peg < 100 THEN "Undervalued (PEG < 1)"
    ELSE IF pe < 1500 THEN "Attractively valued"
    ELSE IF pe < 2500 THEN "Fairly valued"
    ELSE IF pe < 4000 THEN "Premium valuation"
    ELSE "Expensive"

_assess_financial_health(current_ratio, debt_equity) ==
    IF Truthy(current_ratio) /\ current_ratio > 150 /\ Truthy(debt_equity) /\ debt_equity < 5000
    THEN "Strong"
    ELSE IF Truthy(current_ratio) /\ current_ratio > 100
            /\ Truthy(debt_equity) /\ debt_equity < 10000
    THEN "Healthy"
    ELSE IF Truthy(current_ratio) /\ current_ratio > 80 THEN "Moderate"
    ELSE "Needs Attention"

\* A growth label for a missing figure that no enumeration lists.
_assess_growth_mutant(info) ==
    LET rev_growth == Get(info, "revenueGrowth", None) IN
    IF Truthy(rev_growth) /\ rev_growth > 20 THEN "High Growth"
    ELSE IF Truthy(rev_growth) /\ rev_growth > 10 THEN "Moderate Growth"
    ELSE IF Truthy(rev_growth) /\ rev_growth > 0 THEN "Low Growth"
    ELSE IF Truthy(rev_growth) /\ rev_growth < 0 THEN "Declining"
    ELSE "No growth figure"

_assess_growth(info) ==
    LET rev_growth == Get(info, "revenueGrowth", None) IN
    IF Truthy(rev_growth) /\ rev_growth > 20 THEN "High Growth"
    ELSE IF Truthy(rev_growth) /\ rev_growth > 10 THEN "Moderate Growth"
    ELSE IF Truthy(rev_growth) /\ rev_growth > 0 THEN "Low Growth"
    ELSE IF Truthy(rev_growth) /\ rev_growth < 0 THEN "Declining"
    ELSE "Unable to assess"

_analyze_profitability(info) ==
    [ profit_margin |-> _safe_percent(Get(info, "profitMargins", None)),
      roe |-> _safe_percent(Get(info, "returnOnEquity", None)),
      assessment |-> _assess_profitability(info) ]

\* round(x, 2) if x else None
RoundOrNone(x) == IF Truthy(x) THEN x ELSE None

_analyze_valuation(info) ==
    LET pe == Get(info, "trailingPE", None)
        peg == Get(info, "pegRatio", None)
        pb == Get(info, "priceToBook", None)
    IN  [ pe_ratio |-> RoundOrNone(pe),
          peg_ratio |-> RoundOrNone(peg),
          pb_ratio |-> RoundOrNone(pb),
          assessment |-> _assess_valuation(pe, peg, pb) ]

\* debt_to_equity reported in the provider's unit, not divided by 100
_analyze_financial_health_mutant(info) ==
    LET current_ratio == Get(info, "currentRatio", None)
        debt_equity == Get(info, "debtToEquity", None)
    IN  [ current_ratio |-> RoundOrNone(current_ratio),
          debt_to_equity |-> IF Truthy(debt_equity) THEN debt_equity ELSE None,
          assessment |-> _assess_financial_health(current_ratio, debt_equity) ]

_analyze_financial_health(info) ==
    LET current_ratio == Get(info, "currentRatio", None)
        debt_equity == Get(info, "debtToEquity", None)
    IN  [ current_ratio |-> RoundOrNone(current_ratio),
          debt_to_equity |-> IF Truthy(debt_equity) THEN RoundHalfEven(debt_equity, 100)
                             ELSE None,
          assessment |-> _assess_financial_health(current_ratio, debt_equity) ]

_analyze_growth(info) ==
    [ revenue_growth |-> _safe_percent(Get(info, "revenueGrowth", None)),
      earnings_growth |-> _safe_percent(Get(info, "earningsGrowth", None)),
      assessment |-> _assess_growth(info) ]

fundamental_data_of(info) ==
    [ profitability |-> _analyze_profitability(info),
      valuation |-> _analyze_valuation(info),
      financial_health |-> _analyze_financial_health(info),
      growth |-> _analyze_growth(info) ]

\* 0.5 + (available / 4) * 0.4 over the four required sections that are non-empty
fundamental_confidence(data) ==
    LET required_fields == {"profitability", "valuation", "financial_health", "growth"}
        available == Cardinality({f \in required_fields : Get(data, f, EmptyDict) # EmptyDict})
    IN  50 + (available * 40) \div 4

\* The provider calls (stock.info and the three statements) are all that can
\* raise inside FundamentalAgent.analyze.
FundamentalAgent_analyze(t, resp) ==
    IF resp.info_raises
    THEN format_error("Fundamental Analyst", <<"provider error">>)
    ELSE format_output("Fundamental Analyst", fundamental_data_of(resp.info), LLMInsight,
                       fundamental_confidence(fundamental_data_of(resp.info)))

-----------------------------------------------------------------------------
(* TechnicalAgent, technical_agent.py.  The price history and the values of  *)
(* the indicator library are the input: resp.rows is the number of rows,     *)
(* resp.close / high / low the last row, resp.close_20 / _50 / _200 the      *)
(* closes 20 / 50 / 200 rows back, and resp.sma_20 ... resp.atr the last     *)
(* value of each indicator series, None where the library gives none.        *)

_interpret_rsi(rsi) ==
    IF rsi = None THEN "N/A"
    ELSE IF rsi > 7000 THEN "Overbought"
    ELSE IF rsi < 3000 THEN "Oversold"
    ELSE IF rsi > 5000 THEN "Bullish"
    ELSE "Bearish"

_interpret_macd(macd, signal, hist) ==
    IF macd = None \/ signal = None THEN "N/A"
    ELSE IF macd > signal /\ Truthy(hist) /\ hist > 0 THEN "Bullish Crossover"
    ELSE IF macd < signal /\ Truthy(hist) /\ hist < 0 THEN "Bearish Crossover"
    ELSE IF macd > 0 THEN "Bullish"
    ELSE "Bearish"

_interpret_stochastic(stoch_k) ==
    IF stoch_k = None THEN "N/A"
    ELSE IF stoch_k > 8000 THEN "Overbought"
    ELSE IF stoch_k < 2000 THEN "Oversold"
    ELSE "Neutral"

\* atr_pct = (atr / price) * 100 against 3 and 1.5
_interpret_atr(atr, price) ==
    IF atr = None \/ price = 0 THEN "N/A"
    ELSE IF atr * 100 > 3 * price THEN "High Volatility"
    ELSE IF atr * 200 > 3 * price THEN "Moderate Volatility"
    ELSE "Low Volatility"

\* position = (price - lower) / (upper - lower) against 0.9 and 0.1
_bb_position(price, upper, lower) ==
    IF upper = None \/ lower = None THEN "N/A"
    ELSE IF upper - lower = 0 THEN "N/A"
    ELSE IF (upper - lower > 0 /\ 10 * (price - lower) > 9 * (upper - lower))
            \/ (upper - lower < 0 /\ 10 * (price - lower) < 9 * (upper - lower))
         THEN "Near Upper Band"
    ELSE IF (upper - lower > 0 /\ 10 * (price - lower) < upper - lower)
            \/ (upper - lower < 0 /\ 10 * (price - lower) > upper - lower)
         THEN "Near Lower Band"
    ELSE "Middle"

\* "Above" if sma is not None and current_price > sma.iloc[-1] else "Below"
price_vs_sma(price, sma) == IF sma # None /\ price > sma THEN "Above" ELSE "Below"

_calculate_indicators(resp) ==
    [ moving_averages |->
        [ sma_20 |-> resp.sma_20, sma_50 |-> resp.sma_50, sma_200 |-> resp.sma_200,
          price_vs_20sma |-> price_vs_sma(resp.close, resp.sma_20),
          price_vs_50sma |-> price_vs_sma(resp.close, resp.sma_50),
          price_vs_200sma |-> price_vs_sma(resp.close, resp.sma_200) ],
      rsi |-> [ current |-> RoundOrNone(resp.rsi), condition |-> _interpret_rsi(resp.rsi) ],
      macd |-> [ macd_line |-> RoundOrNone(resp.macd_line),
                 signal_line |-> RoundOrNone(resp.macd_signal),
                 histogram |-> RoundOrNone(resp.macd_hist),
                 signal_type |-> _interpret_macd(resp.macd_line, resp.macd_signal,
                                                 resp.macd_hist) ],
      bollinger_bands |-> [ upper |-> RoundOrNone(resp.bb_upper),
                            lower |-> RoundOrNone(resp.bb_lower),
                            position |-> _bb_position(resp.close, resp.bb_upper,
                                                      resp.bb_lower) ],
      stochastic |-> [ k |-> RoundOrNone(resp.stoch_k),
                       condition |-> _interpret_stochastic(resp.stoch_k) ],
      atr |-> [ value |-> RoundOrNone(resp.atr),
                volatility |-> _interpret_atr(resp.atr, resp.close) ] ]

\* sum of the three "Above" comparisons
trend_bullish_signals(ma) ==
    (IF ma.price_vs_20sma = "Above" THEN 1 ELSE 0)
    + (IF ma.price_vs_50sma = "Above" THEN 1 ELSE 0)
    + (IF ma.price_vs_200sma = "Above" THEN 1 ELSE 0)

_analyze_trend(resp, indicators) ==
    LET n == trend_bullish_signals(indicators.moving_averages) IN
    [ short_term |-> [ direction |-> IF resp.close > resp.close_20 THEN "Bullish"
                                     ELSE "Bearish" ],
      medium_term |-> [ direction |-> IF resp.rows >= 50
                                      THEN IF resp.close > resp.close_50 THEN "Bullish"
                                           ELSE "Bearish"
                                      ELSE "N/A" ],
      long_term |-> [ direction |-> IF resp.rows >= 200
                                    THEN IF resp.close > resp.close_200 THEN "Bullish"
                                         ELSE "Bearish"
                                    ELSE "N/A" ],
      overall_trend |-> IF n = 3 THEN "Strong Bullish"
                        ELSE IF n = 2 THEN "Bullish"
                        ELSE IF n = 1 THEN "Neutral"
                        ELSE "Bearish",
      trend_strength |-> n ]

\* pivot = (high + low + close) / 3; r1 = 2 * pivot - low; s1 = 2 * pivot - high
_calculate_support_resistance(resp) ==
    [ pivot_point |-> RoundHalfEven(resp.high + resp.low + resp.close, 3),
      nearest_resistance |->
          RoundHalfEven(2 * (resp.high + resp.low + resp.close) - 3 * resp.low, 3),
      nearest_support |->
          RoundHalfEven(2 * (resp.high + resp.low + resp.close) - 3 * resp.high, 3) ]

_generate_signals(indicators, trend) ==
    LET rsi == indicators.rsi.current
        macd_signal == indicators.macd.signal_type
        ma == indicators.moving_averages
        stoch == indicators.stochastic.condition
        bb_pos == indicators.bollinger_bands.position
        bullish_signals ==
            (IF Truthy(rsi) /\ rsi < 3000 THEN << <<"RSI Oversold">> >> ELSE <<>>)
            \o (IF macd_signal \in {"Bullish Crossover", "Bullish"}
                THEN << <<"MACD ", macd_signal>> >> ELSE <<>>)
            \o (IF ma.price_vs_200sma = "Above" THEN << <<"Price above 200 SMA">> >> ELSE <<>>)
            \o (IF stoch = "Oversold" THEN << <<"Stochastic Oversold">> >> ELSE <<>>)
            \o (IF bb_pos = "Near Lower Band" THEN << <<"Price near lower Bollinger Band">> >>
                ELSE <<>>)
        bearish_signals ==
            (IF ~(Truthy(rsi) /\ rsi < 3000) /\ Truthy(rsi) /\ rsi > 7000
             THEN << <<"RSI Overbought">> >> ELSE <<>>)
            \o (IF macd_signal \in {"Bearish Crossover", "Bearish"}
                THEN << <<"MACD ", macd_signal>> >> ELSE <<>>)
            \o (IF ma.price_vs_200sma # "Above" THEN << <<"Price below 200 SMA">> >> ELSE <<>>)
            \o (IF stoch = "Overbought" THEN << <<"Stochastic Overbought">> >> ELSE <<>>)
            \o (IF bb_pos = "Near Upper Band" THEN << <<"Price near upper Bollinger Band">> >>
                ELSE <<>>)
        bull_count == Len(bullish_signals)
        bear_count == Len(bearish_signals)
    IN  [ bullish_signals |-> bullish_signals,
          bearish_signals |-> bearish_signals,
          overall_signal |-> IF bull_count > bear_count + 1 THEN "Bullish"
                             ELSE IF bear_count > bull_count + 1 THEN "Bearish"
                             ELSE "Neutral",
          signal_strength |-> IF bull_count >= bear_count THEN bull_count - bear_count
                              ELSE bear_count - bull_count ]

\* round(0.5 + min(strength * 0.1, 0.4), 2)
technical_confidence(signals) == 50 + Min(Get(signals, "signal_strength", 0) * 10, 40)

technical_data_of(resp) ==
    LET indicators == _calculate_indicators(resp)
        trend_analysis == _analyze_trend(resp, indicators)
    IN  [ indicators |-> indicators,
          trend |-> trend_analysis,
          support_resistance |-> _calculate_support_resistance(resp),
          signals |-> _generate_signals(indicators, trend_analysis),
          current_price |-> resp.close ]

\* What raises inside TechnicalAgent.analyze: the provider's history call, and
\* for a history of fewer than 20 rows close.iloc[-20] in _analyze_trend (the
\* indicator library's None for rsi fails `rsi.empty` before that).
technical_analyze_raises(resp) == resp.hist_raises \/ resp.rows \in 1..19

TechnicalAgent_analyze(t, resp) ==
    IF resp.hist_raises THEN format_error("Technical Analyst", <<"provider error">>)
    ELSE IF resp.rows = 0
    THEN format_error("Technical Analyst", <<"No historical data available">>)
    ELSE IF technical_analyze_raises(resp)
    THEN format_error("Technical Analyst", <<"single positional indexer is out-of-bounds">>)
    ELSE format_output("Technical Analyst", technical_data_of(resp), LLMInsight,
                       technical_confidence(technical_data_of(resp).signals))

-----------------------------------------------------------------------------
(* Exact fractions <<n, d>>, d > 0, for the float arithmetic of the target   *)
(* price; the results are rounded once, where the code calls round().        *)

RECURSIVE GCD(_, _)
GCD(a, b) == IF b = 0 THEN a ELSE GCD(b, a % b)

Abs(x) == IF x < 0 THEN -x ELSE x

Frac(n, d) ==
    LET g == GCD(Abs(n), d) IN IF g = 0 THEN <<0, 1>> ELSE <<n \div g, d \div g>>

FracMul(a, n, d) == Frac(a[1] * n, a[2] * d)
FracLess(a, b) == a[1] * b[2] < b[1] * a[2]
FracMin(a, b) == IF FracLess(b, a) THEN b ELSE a
FracRound(a) == RoundHalfEven(a[1], a[2])

-----------------------------------------------------------------------------
(* StrategyAgent signal extraction, strategy_agent.py 133-180 *)

\* `None > x` and `x > None` raise TypeError
_extract_market_signals_raises(data) ==
    LET market == Get(data, "data", EmptyDict)
        price_data == Get(market, "price_data", EmptyDict)
        returns == Get(market, "returns", EmptyDict)
    IN  \/ Get(price_data, "volume", 0) = None
        \/ Get(price_data, "avg_volume", 1) = None
        \/ Get(returns, "1_month", 0) = None

_extract_market_signals(data) ==
    LET market == Get(data, "data", EmptyDict)
        price_data == Get(market, "price_data", EmptyDict)
        valuation == Get(market, "valuation", EmptyDict)
        week_52 == Get(market, "52_week", EmptyDict)
        returns == Get(market, "returns", EmptyDict)
    IN  [ current_price |-> Get(price_data, "current_price", 0),
          volume_trend |-> IF Get(price_data, "volume", 0) > Get(price_data, "avg_volume", 1)
                           THEN "high" ELSE "low",
          pe_ratio |-> Get(valuation, "pe_ratio", None),
          position_in_52w |-> Get(week_52, "position_percent", 5000),
          ytd_return |-> Get(returns, "ytd", 0),
          momentum |-> IF Get(returns, "1_month", 0) > 0 THEN "positive" ELSE "negative" ]

_extract_fundamental_signals(data) ==
    LET fund == Get(data, "data", EmptyDict) IN
    [ profitability |-> Get(Get(fund, "profitability", EmptyDict), "assessment", "Unknown"),
      valuation |-> Get(Get(fund, "valuation", EmptyDict), "assessment", "Unknown"),
      financial_health |->
          Get(Get(fund, "financial_health", EmptyDict), "assessment", "Unknown"),
      growth |-> Get(Get(fund, "growth", EmptyDict), "assessment", "Unknown"),
      roe |-> Get(Get(fund, "profitability", EmptyDict), "roe", None),
      pe_ratio |-> Get(Get(fund, "valuation", EmptyDict), "pe_ratio", None),
      debt_equity |-> Get(Get(fund, "financial_health", EmptyDict), "debt_to_equity", None),
      revenue_growth |-> Get(Get(fund, "growth", EmptyDict), "revenue_growth", None) ]

_extract_technical_signals(data) ==
    LET tech == Get(data, "data", EmptyDict)
        indicators == Get(tech, "indicators", EmptyDict)
        signals == Get(tech, "signals", EmptyDict)
    IN  [ trend |-> Get(Get(tech, "trend", EmptyDict), "overall_trend", "Neutral"),
          rsi_condition |-> Get(Get(indicators, "rsi", EmptyDict), "condition", "Neutral"),
          macd_signal |-> Get(Get(indicators, "macd", EmptyDict), "signal_type", "Neutral"),
          overall_signal |-> Get(signals, "overall_signal", "Neutral"),
          bullish_signals |-> Get(signals, "bullish_signals", <<>>),
          bearish_signals |-> Get(signals, "bearish_signals", <<>>),
          support |-> Get(Get(tech, "support_resistance", EmptyDict), "nearest_support", None),
          resistance |->
              Get(Get(tech, "support_resistance", EmptyDict), "nearest_resistance", None) ]

-----------------------------------------------------------------------------
(* StrategyAgent._calculate_aggregate_scores, strategy_agent.py 182-229 *)

\* profit_map with the Moderate and Good deltas confused
profit_map_mutant ==
    ("Strong" :> 20) @@ ("Good" :> 15) @@ ("Moderate" :> 15) @@ ("Weak" :> -10)

profit_map == ("Strong" :> 20) @@ ("Good" :> 15) @@ ("Moderate" :> 5) @@ ("Weak" :> -10)

val_map ==
    ("Undervalued (PEG < 1)" :> 20) @@ ("Attractively valued" :> 15) @@
    ("Fairly valued" :> 5) @@ ("Premium valuation" :> -5) @@ ("Expensive" :> -15)

health_map ==
    ("Strong" :> 15) @@ ("Healthy" :> 10) @@ ("Moderate" :> 0) @@ ("Needs Attention" :> -15)

growth_map ==
    ("High Growth" :> 15) @@ ("Moderate Growth" :> 10) @@ ("Low Growth" :> 0) @@
    ("Declining" :> -15)

trend_map == ("Strong Bullish" :> 25) @@ ("Bullish" :> 15) @@ ("Neutral" :> 0) @@ ("Bearish" :> -20)

signal_map == ("Bullish" :> 15) @@ ("Neutral" :> 0) @@ ("Bearish" :> -15)

\* max(0, min(100, score))
clamp_score(score) == Max(0, Min(100, score))

fund_score(fundamental) ==
    clamp_score(50 + Get(profit_map, fundamental.profitability, 0)
                   + Get(val_map, fundamental.valuation, 0)
                   + Get(health_map, fundamental.financial_health, 0)
                   + Get(growth_map, fundamental.growth, 0))

\* tech_score that forgets to subtract the bearish signals
tech_score_mutant(technical) ==
    clamp_score(50 + Get(trend_map, technical.trend, 0)
                   + Get(signal_map, technical.overall_signal, 0)
                   + Len(technical.bullish_signals) * 3)

tech_score(technical) ==
    clamp_score(50 + Get(trend_map, technical.trend, 0)
                   + Get(signal_map, technical.overall_signal, 0)
                   + Len(technical.bullish_signals) * 3
                   - Len(technical.bearish_signals) * 3)

\* The pairs (f, t) of 0..100 x 0..100 on which the IEEE-754 double value of
\* f * 0.6 + t * 0.4 lies just below the integer that the exact sum equals, so
\* that int() truncates to one less than the exact floor.
FloatTruncDefect ==
    { <<6, 1>>, <<12, 2>>, <<24, 4>>, <<31, 1>>, <<36, 1>>, <<41, 1>>, <<46, 1>>,
      <<48, 3>>, <<48, 8>>, <<51, 1>>, <<57, 2>>, <<57, 7>>, <<62, 2>>, <<62, 7>>,
      <<67, 2>>, <<67, 7>>, <<72, 2>>, <<72, 7>>, <<77, 2>>, <<77, 7>>, <<82, 2>>,
      <<82, 7>>, <<87, 2>>, <<87, 7>>, <<92, 2>>, <<92, 7>>, <<96, 1>>, <<96, 6>>,
      <<96, 11>>, <<96, 16>>, <<97, 2>>, <<97, 7>> }

\* overall_score that rounds to nearest instead of truncating
overall_score_mutant(f, t) == (6 * f + 4 * t + 5) \div 10

\* int(fund_score * 0.6 + tech_score * 0.4) in double arithmetic
overall_score(f, t) ==
    ((6 * f + 4 * t) \div 10) - (IF <<f, t>> \in FloatTruncDefect THEN 1 ELSE 0)

_calculate_aggregate_scores(fundamental, technical, market) ==
    [ fundamental_score |-> fund_score(fundamental),
      technical_score   |-> tech_score(technical),
      overall_score     |-> overall_score(fund_score(fundamental), tech_score(technical)) ]

-----------------------------------------------------------------------------
(* StrategyAgent._generate_recommendation, strategy_agent.py 231-255 *)

\* _generate_recommendation with strict comparisons at the thresholds
_generate_recommendation_mutant(scores) ==
    LET overall == scores.overall_score IN
    [ action |-> IF overall > 75 THEN "Strong Buy"
                 ELSE IF overall > 60 THEN "Buy"
                 ELSE IF overall > 45 THEN "Hold"
                 ELSE IF overall > 30 THEN "Reduce"
                 ELSE "Sell",
      description |-> "",
      score |-> overall ]

_generate_recommendation(scores) ==
    LET overall == scores.overall_score IN
    IF overall >= 75 THEN
        [ action |-> "Strong Buy",
          description |-> "Excellent fundamentals and favorable technical setup",
          score |-> overall ]
    ELSE IF overall >= 60 THEN
        [ action |-> "Buy",
          description |-> "Good investment opportunity with positive outlook",
          score |-> overall ]
    ELSE IF overall >= 45 THEN
        [ action |-> "Hold",
          description |-> "Maintain existing positions, wait for better entry",
          score |-> overall ]
    ELSE IF overall >= 30 THEN
        [ action |-> "Reduce",
          description |-> "Consider reducing exposure, elevated risks",
          score |-> overall ]
    ELSE
        [ action |-> "Sell",
          description |-> "Unfavorable outlook, consider exiting position",
          score |-> overall ]

-----------------------------------------------------------------------------
(* StrategyAgent._calculate_target_price, strategy_agent.py 257-298 *)

target_current_price(market) ==
    Get(Get(Get(market, "data", EmptyDict), "price_data", EmptyDict), "current_price", 0)

\* The default argument current_price * 1.1 is evaluated before sr.get is
\* called: a None current price raises TypeError there.
_calculate_target_price_raises(market, fundamental, technical) ==
    target_current_price(market) = None

\* A high target that ignores the resistance level.
_calculate_target_price_mutant(market, fundamental, technical) ==
    LET current_price == target_current_price(market)
        sr == Get(Get(technical, "data", EmptyDict), "support_resistance", EmptyDict)
        resistance == IF "nearest_resistance" \in DOMAIN sr
                      THEN Frac(sr.nearest_resistance, 1)
                      ELSE Frac(current_price * 11, 10)
        fund_data == Get(fundamental, "data", EmptyDict)
        pe == Get(Get(fund_data, "valuation", EmptyDict), "pe_ratio", None)
        growth == Get(Get(fund_data, "growth", EmptyDict), "revenue_growth", None)
        fair_pe == FracMin(Frac(pe * 12, 10), Frac(4000, 1))
        target_mid ==
            IF Truthy(pe) /\ Truthy(growth) /\ growth > 0
            THEN IF pe > 0 THEN FracMul(fair_pe, current_price, pe)
                 ELSE Frac(current_price, 1)
            ELSE resistance
        target_low == Frac(current_price * 95, 100)
        target_high == FracMul(target_mid, 11, 10)
        upside == Frac((target_mid[1] - current_price * target_mid[2]) * 100,
                       target_mid[2] * current_price)
    IN  IF current_price = 0
        THEN [ low |-> 0, mid |-> 0, high |-> 0, upside_percent |-> 0 ]
        ELSE [ low |-> FracRound(target_low),
               mid |-> FracRound(target_mid),
               high |-> FracRound(target_high),
               upside_percent |-> 10 * FracRound(FracMul(upside, 10, 1)) ]

_calculate_target_price(market, fundamental, technical) ==
    LET current_price == target_current_price(market)
        sr == Get(Get(technical, "data", EmptyDict), "support_resistance", EmptyDict)
        resistance == IF "nearest_resistance" \in DOMAIN sr
                      THEN Frac(sr.nearest_resistance, 1)
                      ELSE Frac(current_price * 11, 10)
        fund_data == Get(fundamental, "data", EmptyDict)
        pe == Get(Get(fund_data, "valuation", EmptyDict), "pe_ratio", None)
        growth == Get(Get(fund_data, "growth", EmptyDict), "revenue_growth", None)
        fair_pe == FracMin(Frac(pe * 12, 10), Frac(4000, 1))
        target_mid ==
            IF Truthy(pe) /\ Truthy(growth) /\ growth > 0
            THEN IF pe > 0 THEN FracMul(fair_pe, current_price, pe)
                 ELSE Frac(current_price, 1)
            ELSE resistance
        target_low == Frac(current_price * 95, 100)
        target_high == FracMin(FracMul(target_mid, 11, 10), FracMul(resistance, 105, 100))
        upside == Frac((target_mid[1] - current_price * target_mid[2]) * 100,
                       target_mid[2] * current_price)
    IN  IF current_price = 0
        THEN [ low |-> 0, mid |-> 0, high |-> 0, upside_percent |-> 0 ]
        ELSE [ low |-> FracRound(target_low),
               mid |-> FracRound(target_mid),
               high |-> FracRound(target_high),
               upside_percent |-> 10 * FracRound(FracMul(upside, 10, 1)) ]

-----------------------------------------------------------------------------
(* StrategyAgent._assess_risk, strategy_agent.py 300-352 *)

\* A High level that needs more than 50.
_assess_risk_mutant(fundamental, technical) ==
    LET fund == Get(fundamental, "data", EmptyDict)
        tech == Get(technical, "data", EmptyDict)
        debt == Get(Get(fund, "financial_health", EmptyDict), "debt_to_equity", None)
        profit == Get(Get(fund, "profitability", EmptyDict), "assessment", "None")
        growth == Get(Get(fund, "growth", EmptyDict), "assessment", "None")
        volatility ==
            Get(Get(Get(tech, "indicators", EmptyDict), "atr", EmptyDict), "volatility", "None")
        trend == Get(Get(tech, "trend", EmptyDict), "overall_trend", "None")
        high_debt == Truthy(debt) /\ debt > 100
        weak_profit == profit \in {"Weak", "Moderate"}
        declining == growth = "Declining"
        volatile == volatility = "High Volatility"
        bearish == trend = "Bearish"
        risk_score == (IF high_debt THEN 20 ELSE 0) + (IF weak_profit THEN 15 ELSE 0)
                      + (IF declining THEN 15 ELSE 0) + (IF volatile THEN 15 ELSE 0)
                      + (IF bearish THEN 20 ELSE 0)
    IN  [ level |-> IF risk_score > 50 THEN "High"
                    ELSE IF risk_score >= 30 THEN "Moderate"
                    ELSE "Low",
          score |-> risk_score,
          factors |-> (IF high_debt THEN << <<"High debt levels">> >> ELSE <<>>)
                      \o (IF weak_profit THEN << <<"Weak profitability">> >> ELSE <<>>)
                      \o (IF declining THEN << <<"Declining growth">> >> ELSE <<>>)
                      \o (IF volatile THEN << <<"High price volatility">> >> ELSE <<>>)
                      \o (IF bearish THEN << <<"Bearish price trend">> >> ELSE <<>>) ]

_assess_risk(fundamental, technical) ==
    LET fund == Get(fundamental, "data", EmptyDict)
        tech == Get(technical, "data", EmptyDict)
        debt == Get(Get(fund, "financial_health", EmptyDict), "debt_to_equity", None)
        profit == Get(Get(fund, "profitability", EmptyDict), "assessment", "None")
        growth == Get(Get(fund, "growth", EmptyDict), "assessment", "None")
        volatility ==
            Get(Get(Get(tech, "indicators", EmptyDict), "atr", EmptyDict), "volatility", "None")
        trend == Get(Get(tech, "trend", EmptyDict), "overall_trend", "None")
        high_debt == Truthy(debt) /\ debt > 100
        weak_profit == profit \in {"Weak", "Moderate"}
        declining == growth = "Declining"
        volatile == volatility = "High Volatility"
        bearish == trend = "Bearish"
        risk_score == (IF high_debt THEN 20 ELSE 0) + (IF weak_profit THEN 15 ELSE 0)
                      + (IF declining THEN 15 ELSE 0) + (IF volatile THEN 15 ELSE 0)
                      + (IF bearish THEN 20 ELSE 0)
    IN  [ level |-> IF risk_score >= 50 THEN "High"
                    ELSE IF risk_score >= 30 THEN "Moderate"
                    ELSE "Low",
          score |-> risk_score,
          factors |-> (IF high_debt THEN << <<"High debt levels">> >> ELSE <<>>)
                      \o (IF weak_profit THEN << <<"Weak profitability">> >> ELSE <<>>)
                      \o (IF declining THEN << <<"Declining growth">> >> ELSE <<>>)
                      \o (IF volatile THEN << <<"High price volatility">> >> ELSE <<>>)
                      \o (IF bearish THEN << <<"Bearish price trend">> >> ELSE <<>>) ]

-----------------------------------------------------------------------------
(* StrategyAgent factor collection and confidence, strategy_agent.py 354-391 *)

\* s[:n]
Prefix(s, n) == IF Len(s) <= n THEN s ELSE SubSeq(s, 1, n)

\* Every technical signal appended, only the cap of 5 applied.
_collect_bullish_factors_mutant(fundamental, technical) ==
    Prefix(
      (IF fundamental.profitability \in {"Strong", "Good"}
       THEN << <<"Strong profitability">> >> ELSE <<>>)
      \o (IF fundamental.valuation \in {"Undervalued (PEG < 1)", "Attractively valued"}
          THEN << <<"Attractive valuation">> >> ELSE <<>>)
      \o (IF fundamental.growth \in {"High Growth", "Moderate Growth"}
          THEN << <<"Growing revenue">> >> ELSE <<>>)
      \o (IF fundamental.financial_health \in {"Strong", "Healthy"}
          THEN << <<"Healthy balance sheet">> >> ELSE <<>>)
      \o technical.bullish_signals,
      5)

_collect_bullish_factors(fundamental, technical) ==
    Prefix(
      (IF fundamental.profitability \in {"Strong", "Good"}
       THEN << <<"Strong profitability">> >> ELSE <<>>)
      \o (IF fundamental.valuation \in {"Undervalued (PEG < 1)", "Attractively valued"}
          THEN << <<"Attractive valuation">> >> ELSE <<>>)
      \o (IF fundamental.growth \in {"High Growth", "Moderate Growth"}
          THEN << <<"Growing revenue">> >> ELSE <<>>)
      \o (IF fundamental.financial_health \in {"Strong", "Healthy"}
          THEN << <<"Healthy balance sheet">> >> ELSE <<>>)
      \o Prefix(technical.bullish_signals, 3),
      5)

_collect_bearish_factors(fundamental, technical) ==
    Prefix(
      (IF fundamental.profitability = "Weak" THEN << <<"Weak profitability">> >> ELSE <<>>)
      \o (IF fundamental.valuation = "Expensive"
          THEN << <<"Expensive valuation">> >> ELSE <<>>)
      \o (IF fundamental.growth = "Declining" THEN << <<"Revenue decline">> >> ELSE <<>>)
      \o (IF fundamental.financial_health = "Needs Attention"
          THEN << <<"Balance sheet concerns">> >> ELSE <<>>)
      \o Prefix(technical.bearish_signals, 3),
      5)

\* Weights of 0.3, 0.4 and 0.3.
_calculate_weighted_confidence_mutant(market_conf, fund_conf, tech_conf) ==
    RoundHalfEven(market_conf * 30 + fund_conf * 40 + tech_conf * 30, 100)

\* round(market_conf * 0.2 + fund_conf * 0.5 + tech_conf * 0.3, 2), confidences
\* in hundredths.  The builders give 0.85 or 0.0 (market) and 0.0 or 0.5 .. 0.9
\* in steps of 0.1 (fundamental, technical): the blend is then a whole number of
\* hundredths and round() has no tie to break.
_calculate_weighted_confidence(market_conf, fund_conf, tech_conf) ==
    RoundHalfEven(market_conf * 20 + fund_conf * 50 + tech_conf * 30, 100)

-----------------------------------------------------------------------------
(* StrategyAgent.analyze, strategy_agent.py 29-131 *)

\* Everything between try and except that can raise.
strategy_analyze_raises(market, fundamental, technical) ==
    \/ _extract_market_signals_raises(market)
    \/ _calculate_target_price_raises(market, fundamental, technical)

\* str(e) of the TypeError the first failing expression raises
strategy_error_text(market) ==
    LET data == Get(market, "data", EmptyDict)
        price_data == Get(data, "price_data", EmptyDict)
        volume == Get(price_data, "volume", 0)
        avg_volume == Get(price_data, "avg_volume", 1)
    IN  IF volume = None /\ avg_volume = None
        THEN <<"'>' not supported between instances of 'NoneType' and 'NoneType'">>
        ELSE IF avg_volume = None
        THEN <<"'>' not supported between instances of 'int' and 'NoneType'">>
        ELSE IF _extract_market_signals_raises(market)
        THEN <<"'>' not supported between instances of 'NoneType' and 'int'">>
        ELSE <<"unsupported operand type(s) for *: 'NoneType' and 'float'">>

strategy_data_of(market, fundamental, technical) ==
    LET market_signals == _extract_market_signals(market)
        fundamental_signals == _extract_fundamental_signals(fundamental)
        technical_signals == _extract_technical_signals(technical)
        scores == _calculate_aggregate_scores(fundamental_signals, technical_signals,
                                              market_signals)
    IN  [ scores |-> scores,
          recommendation |-> _generate_recommendation(scores),
          target_price |-> _calculate_target_price(market, fundamental,
                                                   technical),
          risk_assessment |-> _assess_risk(fundamental, technical),
          key_factors |->
              [ bullish |-> _collect_bullish_factors(fundamental_signals, technical_signals),
                bearish |-> _collect_bearish_factors(fundamental_signals, technical_signals) ] ]

StrategyAgent_analyze(t, market, fundamental, technical) ==
    IF strategy_analyze_raises(market, fundamental, technical)
    THEN format_error("Investment Strategist", strategy_error_text(market))
    ELSE format_output(
             "Investment Strategist",
             strategy_data_of(market, fundamental, technical),
             LLMInsight,
             _calculate_weighted_confidence(Get(market, "confidence", 50),
                                            Get(fundamental, "confidence", 50),
                                            Get(technical, "confidence", 50)))

-----------------------------------------------------------------------------
(* The scoring harness: _calculate_aggregate_scores and                    *)
(* _generate_recommendation applied, as StrategyAgent.analyze applies them *)
(* (strategy_agent.py 55-62), to every signal dict of the bounded sets.    *)

MaxSignals == 6

\* Labels the scoring tables know, and the out-of-table labels that reach them:
\* the 'Unknown' default of _extract_fundamental_signals and the fundamental
\* builder's "Unable to assess" / "Negative earnings".
ProfitabilityLabels == {"Strong", "Good", "Moderate", "Weak", "Unknown"}
ValuationLabels ==
    {"Undervalued (PEG < 1)", "Attractively valued", "Fairly valued", "Premium valuation",
     "Expensive", "Unable to assess", "Negative earnings"}
HealthLabels == {"Strong", "Healthy", "Moderate", "Needs Attention", "Unknown"}
GrowthLabels == {"High Growth", "Moderate Growth", "Low Growth", "Declining", "Unable to assess"}
TrendLabels == {"Strong Bullish", "Bullish", "Neutral", "Bearish", "N/A"}
SignalLabels == {"Bullish", "Neutral", "Bearish", "N/A"}

\* A list of n technical signals.
SignalList(n) == [i \in 1..n |-> <<"signal">>]

FundamentalSignals ==
    [ profitability : ProfitabilityLabels, valuation : ValuationLabels,
      financial_health : HealthLabels, growth : GrowthLabels ]

TechnicalSignals ==
    [ trend : TrendLabels, overall_signal : SignalLabels,
      bullish_signals : {SignalList(n) : n \in 0..MaxSignals},
      bearish_signals : {SignalList(n) : n \in 0..MaxSignals} ]

Idle == [op |-> "idle"]

Unset == [status |-> "unset"]

pipeline_vars ==
    <<pc, ticker, market_data, company_name, task, fundamental_analysis, technical_analysis,
      strategy_args, recommendation, result, invoked, answers>>

http_vars == <<market_data_cache, http>>

vars == <<pipeline_vars, call, http_vars>>

ScoreCall ==
    /\ call = Idle
    /\ \E fundamental \in FundamentalSignals, technical \in TechnicalSignals :
         LET scores == _calculate_aggregate_scores(fundamental, technical, EmptyDict) IN
         call' = [ op |-> "score",
                   fundamental |-> fundamental,
                   technical |-> technical,
                   scores |-> scores,
                   recommendation |-> _generate_recommendation(scores) ]
    /\ UNCHANGED <<pipeline_vars, http_vars>>

\* _generate_recommendation on its own, for every overall score.
RecommendCall ==
    /\ call = Idle
    /\ \E overall \in 0..100 :
         LET scores == [overall_score |-> overall] IN
         call' = [ op |-> "recommend",
                   scores |-> scores,
                   recommendation |-> _generate_recommendation(scores) ]
    /\ UNCHANGED <<pipeline_vars, http_vars>>

ScoreReturn ==
    /\ call.op \in {"score", "recommend"}
    /\ call' = Idle
    /\ UNCHANGED <<pipeline_vars, http_vars>>

\* The envelopes _calculate_target_price is applied to: the current price
\* absent, null, zero or positive; the P/E absent, null, zero, negative, below
\* and above the point where the cap of 40 acts; the revenue growth absent,
\* null, zero, negative or positive; the resistance absent, under or over the
\* price.  Money and ratios are in hundredths.
TargetPrices == {None, 0, 250, 1000, 1234}
TargetPEs == {None, 0, -500, 1200, 3333, 3334, 5000}
TargetGrowths == {None, 0, -1000, 2500}
TargetResistances == {900, 1100, 1300}

TargetMarkets ==
    { [data |-> [price_data |-> pd]] :
        pd \in {EmptyDict} \cup {[current_price |-> x] : x \in TargetPrices} }

TargetFundamentals ==
    { [data |-> [valuation |-> v, growth |-> g]] :
        v \in {EmptyDict} \cup {[pe_ratio |-> x] : x \in TargetPEs},
        g \in {EmptyDict} \cup {[revenue_growth |-> x] : x \in TargetGrowths} }

TargetTechnicals ==
    { [data |-> [support_resistance |-> sr]] :
        sr \in {EmptyDict} \cup {[nearest_resistance |-> x] : x \in TargetResistances} }

\* _calculate_target_price applied as StrategyAgent.analyze applies it
\* (strategy_agent.py 64-69); a TypeError leaves no result.
TargetCall ==
    /\ call = Idle
    /\ \E market \in TargetMarkets, fundamental \in TargetFundamentals,
          technical \in TargetTechnicals :
         call' = [ op |-> "target",
                   market |-> market,
                   fundamental |-> fundamental,
                   technical |-> technical,
                   raised |-> _calculate_target_price_raises(market, fundamental, technical),
                   target_price |->
                       IF _calculate_target_price_raises(market, fundamental, technical)
                       THEN EmptyDict
                       ELSE _calculate_target_price(market, fundamental, technical) ]
    /\ UNCHANGED <<pipeline_vars, http_vars>>

\* The envelopes _assess_risk is applied to: every field absent or present,
\* the debt-to-equity ratio (hundredths) null, zero, under, at and over 1.
RiskDebts == {None, 0, 50, 100, 101, 250}
VolatilityLabels == {"High Volatility", "Moderate Volatility", "Low Volatility", "N/A"}

OptionalField(k, values) == {EmptyDict} \cup {(k :> x) : x \in values}

RiskFundamentals ==
    { format_error("Fundamental Analyst", <<"provider error">>) } \cup
    { [data |-> [financial_health |-> h, profitability |-> pr, growth |-> g]] :
        h \in OptionalField("debt_to_equity", RiskDebts),
        pr \in OptionalField("assessment", ProfitabilityLabels),
        g \in OptionalField("assessment", GrowthLabels) }

RiskTechnicals ==
    { format_error("Technical Analyst", <<"provider error">>) } \cup
    { [data |-> [indicators |-> [atr |-> v], trend |-> tr]] :
        v \in OptionalField("volatility", VolatilityLabels),
        tr \in OptionalField("overall_trend", TrendLabels) }

\* _assess_risk applied as StrategyAgent.analyze applies it (strategy_agent.py 71-75)
RiskCall ==
    /\ call = Idle
    /\ \E fundamental \in RiskFundamentals, technical \in RiskTechnicals :
         call' = [ op |-> "risk",
                   fundamental |-> fundamental,
                   technical |-> technical,
                   risk_assessment |-> _assess_risk(fundamental, technical) ]
    /\ UNCHANGED <<pipeline_vars, http_vars>>

\* n technical signals that can be told apart.
NumberedSignals(n) == [i \in 1..n |-> <<"signal", i>>]

FactorTechnicals ==
    { [ trend |-> "Neutral", overall_signal |-> "Neutral",
        bullish_signals |-> NumberedSignals(n), bearish_signals |-> NumberedSignals(m) ] :
        n \in 0..MaxSignals, m \in 0..MaxSignals }

\* _collect_bullish_factors and _collect_bearish_factors applied to the signal
\* dicts, as StrategyAgent.analyze applies them (strategy_agent.py 82-85)
FactorCall ==
    /\ call = Idle
    /\ \E fundamental \in FundamentalSignals, technical \in FactorTechnicals :
         call' = [ op |-> "factors",
                   fundamental |-> fundamental,
                   technical |-> technical,
                   bullish |-> _collect_bullish_factors(fundamental, technical),
                   bearish |-> _collect_bearish_factors(fundamental, technical) ]
    /\ UNCHANGED <<pipeline_vars, http_vars>>

\* The envelopes whose confidences are blended: without a confidence, an
\* error envelope, or a success envelope with a confidence in steps of 0.05
\* (market) or 0.1 (fundamental, technical).
ConfidenceEnvelopes(name, step) ==
    { EmptyDict, format_error(name, <<"provider error">>) } \cup
    { format_output(name, EmptyDict, LLMInsight, c * step) : c \in 0..(100 \div step) }

\* The confidence of StrategyAgent.analyze, strategy_agent.py 121-126
ConfidenceCall ==
    /\ call = Idle
    /\ \E market \in ConfidenceEnvelopes("Market Data Agent", 5),
          fundamental \in ConfidenceEnvelopes("Fundamental Analyst", 10),
          technical \in ConfidenceEnvelopes("Technical Analyst", 10) :
         call' = [ op |-> "confidence",
                   market |-> market,
                   fundamental |-> fundamental,
                   technical |-> technical,
                   confidence |->
                       _calculate_weighted_confidence(Get(market, "confidence", 50),
                                                      Get(fundamental, "confidence", 50),
                                                      Get(technical, "confidence", 50)) ]
    /\ UNCHANGED <<pipeline_vars, http_vars>>

StrategyReturn ==
    /\ call.op \in {"target", "risk", "factors", "confidence"}
    /\ call' = Idle
    /\ UNCHANGED <<pipeline_vars, http_vars>>

-----------------------------------------------------------------------------
(* What the data provider can answer.  Each builder asks the provider itself *)
(* (yf.Ticker(symbol)), so each draws its own answer.                        *)

Tickers == {"TCS", "ACME.NS"}

FullInfo ==
    [ currentPrice |-> 10000, fiftyTwoWeekHigh |-> 12000, fiftyTwoWeekLow |-> 8000,
      longName |-> "Acme Industries", volume |-> 500, averageVolume |-> 400,
      trailingPE |-> 1800 ]

\* 23 daily closes: the 1-month window (22 rows) is shorter than the history.
RisingCloses == [i \in 1..23 |-> 9000 + 50 * i]

MarketResponse(info, closes) ==
    [ info_raises |-> FALSE, info |-> info, hist_raises |-> FALSE, closes |-> closes,
      ytd_rows |-> Min(Len(closes), 10) ]

MarketResponses ==
    { MarketResponse(FullInfo, RisingCloses),
      [MarketResponse(FullInfo, RisingCloses) EXCEPT !.info_raises = TRUE],
      [MarketResponse(FullInfo, RisingCloses) EXCEPT !.hist_raises = TRUE],
      \* no history at all: get_historical_data raises ValueError
      MarketResponse(FullInfo, <<>>),
      \* a single row: every return is None
      MarketResponse(FullInfo, <<10000>>),
      \* volume present and null
      MarketResponse([FullInfo EXCEPT !.volume = None], <<10000, 9500>>),
      \* average volume present and null
      MarketResponse([FullInfo EXCEPT !.averageVolume = None], <<10000, 9500>>),
      \* no current price but a null regularMarketPrice, no 52-week range
      MarketResponse([regularMarketPrice |-> None, volume |-> 500, averageVolume |-> 400],
                     <<10000, 10500>>),
      \* the same with a 52-week range: current_price - low_52w raises
      MarketResponse([regularMarketPrice |-> None, fiftyTwoWeekHigh |-> 12000,
                      fiftyTwoWeekLow |-> 8000], <<10000, 10500>>),
      \* an info dict without any of the fields: price 0
      MarketResponse(EmptyDict, <<10000, 9500>>) }

FundamentalResponse(info) == [ info_raises |-> FALSE, info |-> info ]

FundamentalResponses ==
    { [ info_raises |-> TRUE, info |-> EmptyDict ],
      FundamentalResponse(
        [ returnOnEquity |-> 20, profitMargins |-> 15, trailingPE |-> 1200, pegRatio |-> 80,
          currentRatio |-> 200, debtToEquity |-> 3000, revenueGrowth |-> 25 ]),
      FundamentalResponse(
        [ returnOnEquity |-> 12, profitMargins |-> 6, trailingPE |-> 5000,
          currentRatio |-> 120, debtToEquity |-> 8000, revenueGrowth |-> 5 ]),
      FundamentalResponse(
        [ returnOnEquity |-> -5, profitMargins |-> -2, trailingPE |-> -500,
          currentRatio |-> 50, debtToEquity |-> 25000, revenueGrowth |-> -10 ]),
      \* every metric present and null
      FundamentalResponse(
        [ returnOnEquity |-> None, profitMargins |-> None, trailingPE |-> None,
          pegRatio |-> None, currentRatio |-> None, debtToEquity |-> None,
          revenueGrowth |-> None ]),
      \* every metric absent
      FundamentalResponse(EmptyDict) }

BullishHistory ==
    [ hist_raises |-> FALSE, rows |-> 250,
      close |-> 10000, high |-> 10100, low |-> 9900,
      close_20 |-> 9500, close_50 |-> 9000, close_200 |-> 8000,
      sma_20 |-> 9800, sma_50 |-> 9500, sma_200 |-> 9000,
      rsi |-> 2500, macd_line |-> 50, macd_signal |-> 30, macd_hist |-> 20,
      bb_upper |-> 11000, bb_lower |-> 9950, stoch_k |-> 1500, atr |-> 100 ]

TechnicalResponses ==
    { BullishHistory,
      [BullishHistory EXCEPT !.hist_raises = TRUE],
      \* an empty history
      [BullishHistory EXCEPT !.rows = 0],
      \* a history shorter than the 20-row lookback
      [BullishHistory EXCEPT !.rows = 10, !.sma_20 = None, !.sma_50 = None, !.sma_200 = None,
                             !.macd_line = None, !.macd_signal = None, !.macd_hist = None],
      \* 40 rows: no 50-day and no 200-day average
      [BullishHistory EXCEPT !.rows = 40, !.sma_50 = None, !.sma_200 = None],
      \* 100 rows: no 200-day average and no 200-row lookback
      [BullishHistory EXCEPT !.rows = 100, !.sma_200 = None, !.rsi = 5500, !.stoch_k = 5000,
                             !.bb_lower = 9000],
      \* price under every average, overbought, volatile
      [BullishHistory EXCEPT !.sma_20 = 10200, !.sma_50 = 10500, !.sma_200 = 11000,
                             !.close_20 = 10500, !.close_50 = 11000, !.close_200 = 12000,
                             !.rsi = 7500, !.macd_line = -50, !.macd_signal = -30,
                             !.macd_hist = -20, !.bb_upper = 10050, !.bb_lower = 9000,
                             !.stoch_k = 8500, !.atr = 400] }

-----------------------------------------------------------------------------
(* run_analysis_pipeline, orchestrator/graph.py 25-94 *)

Bump(counter, name) == [counter EXCEPT ![name] = @ + 1]

\* lines 41-50: the agents are built and market_agent.analyze is entered
StartPipeline(t) ==
    /\ pc = "idle"
    /\ ticker' = t
    /\ invoked' = Bump(invoked, "market")
    /\ pc' = "FETCHING_MARKET"
    /\ UNCHANGED http_vars
    /\ UNCHANGED <<market_data, company_name, task, fundamental_analysis,
                   technical_analysis, strategy_args, recommendation, result, answers, call>>

\* line 50: market_agent.analyze returns its envelope
MarketAnalyze ==
    /\ pc = "FETCHING_MARKET"
    /\ market_data = Unset
    /\ \E resp \in MarketResponses :
         /\ market_data' = MarketDataAgent_analyze(ticker, resp)
         /\ answers' = [answers EXCEPT !.market = resp]
    /\ UNCHANGED http_vars
    /\ UNCHANGED <<pc, ticker, company_name, task, fundamental_analysis, technical_analysis,
                   strategy_args, recommendation, result, invoked, call>>

\* lines 52-56
MarketFailed ==
    /\ pc = "FETCHING_MARKET"
    /\ market_data # Unset
    /\ Get(market_data, "status", "None") = "error"
    /\ result' = [ error |-> <<"Failed to fetch market data: ",
                               Get(market_data, "error", <<"None">>)>>,
                   status |-> "failed" ]
    /\ pc' = "FAILED"
    /\ UNCHANGED http_vars
    /\ UNCHANGED <<ticker, market_data, company_name, task, fundamental_analysis,
                   technical_analysis, strategy_args, recommendation, invoked, answers, call>>

\* The analyses started without the status check of line 52.
StartParallel_mutant ==
    /\ pc = "FETCHING_MARKET"
    /\ market_data # Unset
    /\ company_name' =
         Get(Get(Get(market_data, "data", EmptyDict), "basic_info", EmptyDict), "name", ticker)
    /\ task' = [ fundamental |-> [state |-> "pending", result |-> Unset],
                 technical |-> [state |-> "pending", result |-> Unset],
                 finished |-> <<>> ]
    /\ pc' = "PARALLEL_ANALYSIS"
    /\ UNCHANGED http_vars
    /\ UNCHANGED <<ticker, market_data, fundamental_analysis, technical_analysis,
                   strategy_args, recommendation, result, invoked, answers, call>>

\* lines 58-71: the two coroutines are created and handed to asyncio.gather
StartParallel ==
    /\ pc = "FETCHING_MARKET"
    /\ market_data # Unset
    /\ Get(market_data, "status", "None") # "error"
    /\ company_name' =
         Get(Get(Get(market_data, "data", EmptyDict), "basic_info", EmptyDict), "name", ticker)
    /\ task' = [ fundamental |-> [state |-> "pending", result |-> Unset],
                 technical |-> [state |-> "pending", result |-> Unset],
                 finished |-> <<>> ]
    /\ pc' = "PARALLEL_ANALYSIS"
    /\ UNCHANGED http_vars
    /\ UNCHANGED <<ticker, market_data, fundamental_analysis, technical_analysis,
                   strategy_args, recommendation, result, invoked, answers, call>>

\* the event loop enters fundamental_agent.analyze
FundamentalStart ==
    /\ pc = "PARALLEL_ANALYSIS"
    /\ task.fundamental.state = "pending"
    /\ task' = [task EXCEPT !.fundamental.state = "running"]
    /\ invoked' = Bump(invoked, "fundamental")
    /\ UNCHANGED http_vars
    /\ UNCHANGED <<pc, ticker, market_data, company_name, fundamental_analysis,
                   technical_analysis, strategy_args, recommendation, result, answers, call>>

FundamentalFinish ==
    /\ pc = "PARALLEL_ANALYSIS"
    /\ task.fundamental.state = "running"
    /\ \E resp \in FundamentalResponses :
         /\ task' = [task EXCEPT !.fundamental =
                      [state |-> "done", result |-> FundamentalAgent_analyze(ticker, resp)],
                                  !.finished = Append(@, "fundamental")]
         /\ answers' = [answers EXCEPT !.fundamental = resp]
    /\ UNCHANGED http_vars
    /\ UNCHANGED <<pc, ticker, market_data, company_name, fundamental_analysis,
                   technical_analysis, strategy_args, recommendation, result, invoked, call>>

\* the event loop enters technical_agent.analyze
TechnicalStart ==
    /\ pc = "PARALLEL_ANALYSIS"
    /\ task.technical.state = "pending"
    /\ task' = [task EXCEPT !.technical.state = "running"]
    /\ invoked' = Bump(invoked, "technical")
    /\ UNCHANGED http_vars
    /\ UNCHANGED <<pc, ticker, market_data, company_name, fundamental_analysis,
                   technical_analysis, strategy_args, recommendation, result, answers, call>>

TechnicalFinish ==
    /\ pc = "PARALLEL_ANALYSIS"
    /\ task.technical.state = "running"
    /\ \E resp \in TechnicalResponses :
         /\ task' = [task EXCEPT !.technical =
                      [state |-> "done", result |-> TechnicalAgent_analyze(ticker, resp)],
                                  !.finished = Append(@, "technical")]
         /\ answers' = [answers EXCEPT !.technical = resp]
    /\ UNCHANGED http_vars
    /\ UNCHANGED <<pc, ticker, market_data, company_name, fundamental_analysis,
                   technical_analysis, strategy_args, recommendation, result, invoked, call>>

\* A gather that returns as soon as either task is done.
GatherReturn_mutant ==
    /\ pc = "PARALLEL_ANALYSIS"
    /\ task.fundamental.state = "done" \/ task.technical.state = "done"
    /\ fundamental_analysis' = task.fundamental.result
    /\ technical_analysis' = task.technical.result
    /\ strategy_args' = [ ticker |-> ticker,
                          market_data |-> market_data,
                          fundamental_analysis |-> task.fundamental.result,
                          technical_analysis |-> task.technical.result ]
    /\ invoked' = Bump(invoked, "strategy")
    /\ pc' = "AGGREGATING"
    /\ UNCHANGED http_vars
    /\ UNCHANGED <<ticker, market_data, company_name, task, recommendation, result, answers, call>>

\* A gather that returns the results in the order in which the tasks finished.
GatherReturn_completion_order ==
    /\ pc = "PARALLEL_ANALYSIS"
    /\ task.fundamental.state = "done"
    /\ task.technical.state = "done"
    /\ fundamental_analysis' = task[task.finished[1]].result
    /\ technical_analysis' = task[task.finished[2]].result
    /\ strategy_args' = [ ticker |-> ticker,
                          market_data |-> market_data,
                          fundamental_analysis |-> task[task.finished[1]].result,
                          technical_analysis |-> task[task.finished[2]].result ]
    /\ invoked' = Bump(invoked, "strategy")
    /\ pc' = "AGGREGATING"
    /\ UNCHANGED http_vars
    /\ UNCHANGED <<ticker, market_data, company_name, task, recommendation, result, answers, call>>

\* lines 68-81: gather returns the results in argument order once both tasks
\* are done, and strategy_agent.analyze is entered with the three envelopes
GatherReturn ==
    /\ pc = "PARALLEL_ANALYSIS"
    /\ task.fundamental.state = "done"
    /\ task.technical.state = "done"
    /\ fundamental_analysis' = task.fundamental.result
    /\ technical_analysis' = task.technical.result
    /\ strategy_args' = [ ticker |-> ticker,
                          market_data |-> market_data,
                          fundamental_analysis |-> task.fundamental.result,
                          technical_analysis |-> task.technical.result ]
    /\ invoked' = Bump(invoked, "strategy")
    /\ pc' = "AGGREGATING"
    /\ UNCHANGED http_vars
    /\ UNCHANGED <<ticker, market_data, company_name, task, recommendation, result, answers, call>>

\* line 76: strategy_agent.analyze returns its envelope
StrategyAnalyze ==
    /\ pc = "AGGREGATING"
    /\ recommendation = Unset
    /\ recommendation' = StrategyAgent_analyze(strategy_args.ticker, strategy_args.market_data,
                                               strategy_args.fundamental_analysis,
                                               strategy_args.technical_analysis)
    /\ UNCHANGED http_vars
    /\ UNCHANGED <<pc, ticker, market_data, company_name, task, fundamental_analysis,
                   technical_analysis, strategy_args, result, invoked, answers, call>>

\* The result dict of lines 86-94.
pipeline_result ==
    [ ticker |-> ticker,
      company_name |-> company_name,
      market_data |-> market_data,
      fundamental_analysis |-> fundamental_analysis,
      technical_analysis |-> technical_analysis,
      recommendation |-> recommendation,
      status |-> "success" ]

\* A return that turns an error envelope of the strategy builder into a failure.
ReturnResult_mutant ==
    /\ pc = "AGGREGATING"
    /\ recommendation # Unset
    /\ IF Get(recommendation, "status", "None") = "error"
       THEN /\ result' = [ error |-> <<"Failed to build recommendation: ",
                                       Get(recommendation, "error", <<"None">>)>>,
                           status |-> "failed" ]
            /\ pc' = "FAILED"
       ELSE /\ result' = pipeline_result
            /\ pc' = "DONE"
    /\ UNCHANGED http_vars
    /\ UNCHANGED <<ticker, market_data, company_name, task, fundamental_analysis,
                   technical_analysis, strategy_args, recommendation, invoked, answers, call>>

\* lines 83-94
ReturnResult ==
    /\ pc = "AGGREGATING"
    /\ recommendation # Unset
    /\ result' = pipeline_result
    /\ pc' = "DONE"
    /\ UNCHANGED http_vars
    /\ UNCHANGED <<ticker, market_data, company_name, task, fundamental_analysis,
                   technical_analysis, strategy_args, recommendation, invoked, answers, call>>

-----------------------------------------------------------------------------
(* utils.py: validate_ticker, safe_get, retry_on_failure and cached;  the    *)
(* two fetches of MarketDataAgent they wrap;  main.py: the /compare handler. *)
(* A ticker is the sequence of its characters.  The outcome of a call is the *)
(* dict or frame it returned, or the exception it raised.                    *)

Raises(class, message) == [exception |-> class, message |-> message]

\* isinstance(x, Exception)
IsException(x) == "exception" \in DOMAIN x

AlnumChars ==
    {"A", "T", "C", "S", "I", "N", "F", "Y", "B", "O", "X", "t", "c", "s", "i", "n", "1"}

\* A Python value with its type: a str, given by its characters, None, a
\* number, or a dict, given by the function from its keys to its values.
Str(chars) == [type |-> "str", chars |-> chars]

NoneValue == [type |-> "NoneType"]

Num(n) == [type |-> "int", num |-> n]

Dict(items) == [type |-> "dict", items |-> items]

\* bool(x)
PyTruthy(x) ==
    CASE x.type = "NoneType" -> FALSE
      [] x.type = "int" -> x.num # 0
      [] x.type = "str" -> x.chars # <<>>
      [] x.type = "dict" -> DOMAIN x.items # {}

UpperChar ==
    ("t" :> "T") @@ ("c" :> "C") @@ ("s" :> "S") @@ ("i" :> "I") @@ ("n" :> "N")

\* str.upper()
upper(s) == [i \in 1..Len(s) |-> IF s[i] \in DOMAIN UpperChar THEN UpperChar[s[i]] ELSE s[i]]

Whitespace == {" ", "\t"}

\* str.strip(): leading and trailing whitespace removed
RECURSIVE strip(_)
strip(s) ==
    IF s = <<>> THEN s
    ELSE IF Head(s) \in Whitespace THEN strip(Tail(s))
    ELSE IF s[Len(s)] \in Whitespace THEN strip(SubSeq(s, 1, Len(s) - 1))
    ELSE s

\* str.endswith(suffix)
endswith(s, suffix) ==
    Len(s) >= Len(suffix) /\ SubSeq(s, Len(s) - Len(suffix) + 1, Len(s)) = suffix

\* MarketDataAgent._get_ticker_symbol
_get_ticker_symbol_mutant(symbol) == strip(upper(symbol)) \o <<".", "N", "S">>

_get_ticker_symbol(symbol) ==
    LET upper_ticker == strip(upper(symbol))
    IN  IF endswith(upper_ticker, <<".", "N", "S">>) \/ endswith(upper_ticker, <<".", "B", "O">>)
        THEN upper_ticker
        ELSE upper_ticker \o <<".", "N", "S">>

\* FundamentalAgent._get_ticker_symbol
FundamentalAgent_get_ticker_symbol(symbol) ==
    LET upper_ticker == strip(upper(symbol))
    IN  IF endswith(upper_ticker, <<".", "N", "S">>) \/ endswith(upper_ticker, <<".", "B", "O">>)
        THEN upper_ticker
        ELSE upper_ticker \o <<".", "N", "S">>

\* TechnicalAgent._get_ticker_symbol
TechnicalAgent_get_ticker_symbol(symbol) ==
    LET upper_ticker == strip(upper(symbol))
    IN  IF endswith(upper_ticker, <<".", "N", "S">>) \/ endswith(upper_ticker, <<".", "B", "O">>)
        THEN upper_ticker
        ELSE upper_ticker \o <<".", "N", "S">>

StartsWith(s, pattern) ==
    Len(s) >= Len(pattern) /\ SubSeq(s, 1, Len(pattern)) = pattern

\* str.replace(pattern, ''): every occurrence removed, left to right
RECURSIVE Remove(_, _)
Remove(s, pattern) ==
    IF s = <<>> THEN s
    ELSE IF StartsWith(s, pattern) THEN Remove(SubSeq(s, Len(pattern) + 1, Len(s)), pattern)
    ELSE <<Head(s)>> \o Remove(Tail(s), pattern)

isalnum(s) == s # <<>> /\ \A i \in 1..Len(s) : s[i] \in AlnumChars

\* `not ticker` holds of None and of the empty string.
validate_ticker(t) ==
    IF t.type # "str" \/ t.chars = <<>> THEN FALSE
    ELSE LET clean_ticker == Remove(Remove(t.chars, <<".", "N", "S">>), <<".", "B", "O">>)
         IN  isalnum(clean_ticker) /\ 1 <= Len(clean_ticker) /\ Len(clean_ticker) <= 20

\* safe_get giving the default for every falsy value.
RECURSIVE safe_get_mutant(_, _, _)
safe_get_mutant(reached, keys, default) ==
    IF keys = <<>>
    THEN IF PyTruthy(reached) THEN reached ELSE default
    ELSE IF reached.type = "dict"
    THEN LET got == IF Head(keys) \in DOMAIN reached.items
                    THEN reached.items[Head(keys)] ELSE NoneValue
         IN  IF got.type = "NoneType" THEN default
             ELSE safe_get_mutant(got, Tail(keys), default)
    ELSE default

\* safe_get(dictionary, *keys, default=default): the loop over the keys, then
\* the final test of the value reached.
RECURSIVE safe_get(_, _, _)
safe_get(reached, keys, default) ==
    IF keys = <<>>
    THEN IF reached.type # "NoneType" THEN reached ELSE default
    ELSE IF reached.type = "dict"
    THEN LET got == IF Head(keys) \in DOMAIN reached.items
                    THEN reached.items[Head(keys)] ELSE NoneValue
         IN  IF got.type = "NoneType" THEN default ELSE safe_get(got, Tail(keys), default)
    ELSE default

\* Python's `a or b`
Or(a, b) == IF PyTruthy(a) THEN a ELSE b

\* The body of get_quick_quote for one answer of the provider to stock.info.
\* Whatever the provider raises is caught by `except Exception` and raised
\* again as a plain Exception; the two ValueErrors of the body pass through.
get_quick_quote(t, answer) ==
    IF IsException(answer)
    THEN Raises("Exception",
                <<"Failed to fetch quote for ", t, ". Please verify the ticker symbol.">>)
    ELSE
    LET info == answer
        current_price == Or(safe_get(info, <<"currentPrice">>, Num(0)),
                            safe_get(info, <<"regularMarketPrice">>, Num(0))).num
        previous_close == Or(safe_get(info, <<"previousClose">>, Num(0)),
                             safe_get(info, <<"regularMarketPreviousClose">>, Num(0))).num
        change == IF previous_close # 0 THEN current_price - previous_close ELSE 0
        change_pct == IF previous_close # 0
                      THEN RoundHalfEven(change * 10000, previous_close) ELSE 0
        market_cap == safe_get(info, <<"marketCap">>, NoneValue)
    IN  IF ~PyTruthy(info) \/ Cardinality(DOMAIN info.items) < 5
        THEN Raises("ValueError", <<"Insufficient data returned for ", t>>)
        ELSE IF current_price = 0
        THEN Raises("ValueError", <<"No price data available for ", t>>)
        ELSE [ ticker |-> t,
               name |-> safe_get(info, <<"longName">>,
                                 safe_get(info, <<"shortName">>, Str(t))).chars,
               price |-> current_price,
               change |-> change,
               change_percent |-> change_pct,
               volume |-> safe_get(info, <<"volume">>, Num(0)).num,
               market_cap |-> IF market_cap.type = "NoneType" THEN None
                              ELSE market_cap.num ]

\* The body of get_historical_data for one answer of the provider to
\* stock.history(period): a frame, given by its Close column, or what it raised.
get_historical_data(t, answer) ==
    IF IsException(answer)
    THEN Raises("Exception", <<"Failed to fetch historical data for ", t>>)
    ELSE IF Len(answer.Close) = 0
    THEN Raises("ValueError", <<"No historical data available for ", t>>)
    ELSE answer

\* @retry_on_failure(max_attempts=3) on both fetches
max_attempts == 3

\* retry=retry_if_exception_type((ConnectionError, TimeoutError))
RetryOn == {"ConnectionError", "TimeoutError"}

\* A retry wrapper that tries again after every exception.
retry_on_failure_mutant(outcome, attempt_number, stop_after_attempt) ==
    /\ IsException(outcome)
    /\ attempt_number < stop_after_attempt

\* tenacity after an attempt of the wrapped body: another attempt when the
\* body raised one of the classes of RetryOn and stop_after_attempt allows
\* it; otherwise the value is returned or the exception raised again
\* (reraise=True).
retry_on_failure(outcome, attempt_number, stop_after_attempt) ==
    /\ IsException(outcome)
    /\ outcome.exception \in RetryOn
    /\ attempt_number < stop_after_attempt

\* cache_key = f"{func.__name__}:{str(args)}:{str(kwargs)}"
cache_key(func, args, kwargs) == <<func, args, kwargs>>

\* What one call through @cached returned or raised: on a hit the stored
\* result and no call of the provider, otherwise the outcome of the last
\* attempt and the provider's replies to all attempts.
cached(cache, key, t, provider_calls, outcome) ==
    IF key \in DOMAIN cache
    THEN [ ticker |-> t, cache_hit |-> TRUE, provider_calls |-> <<>>, result |-> cache[key] ]
    ELSE [ ticker |-> t, cache_hit |-> FALSE, provider_calls |-> provider_calls,
           result |-> outcome ]

\* A wrapper that stores whatever the call ended with, an exception included.
cache_after_mutant(cache, key, fetch) ==
    IF ~fetch.cache_hit THEN (key :> fetch.result) @@ cache ELSE cache

\* cache[cache_key] = result, reached only when the call returned
cache_after(cache, key, fetch) ==
    IF ~IsException(fetch.result) /\ ~fetch.cache_hit
    THEN (key :> fetch.result) @@ cache
    ELSE cache

\* What the provider may raise: the two connectivity failures and one other.
ProviderErrors ==
    { Raises("ConnectionError", <<"connection reset">>),
      Raises("TimeoutError", <<"timed out">>),
      Raises("KeyError", <<"quoteSummary">>) }

QuoteInfo(current, previous) ==
    Dict([ currentPrice |-> Num(current), previousClose |-> Num(previous),
           longName |-> Str(<<"Acme Industries">>), volume |-> Num(500),
           marketCap |-> Num(7000000) ])

QuoteAnswers ==
    ProviderErrors \cup
    { \* fewer than five fields
      Dict([longName |-> Str(<<"Acme Industries">>)]),
      \* five fields, none of them a price
      Dict([longName |-> Str(<<"Acme Industries">>), volume |-> Num(500),
            marketCap |-> Num(7000000), averageVolume |-> Num(400),
            trailingPE |-> Num(1800)]),
      QuoteInfo(10000, 9500),
      QuoteInfo(10000, 12500),
      QuoteInfo(20000, 20000),
      \* only the regular-market price, no previous close, null name and volume
      Dict([regularMarketPrice |-> Num(15000), volume |-> NoneValue,
            longName |-> NoneValue, fiftyTwoWeekHigh |-> Num(12000),
            fiftyTwoWeekLow |-> Num(8000)]) }

HistoryAnswers ==
    ProviderErrors \cup
    { [Close |-> <<>>], [Close |-> <<10000>>], [Close |-> <<10000, 9500>>],
      [Close |-> RisingCloses] }

\* The entries of the tickers parameter between its commas.
CompareEntries == { <<"T", "C", "S">>, <<" ", "i", "N", "F", "Y">>, <<"B", "!">> }

MaxEntries == 3

\* Lists of 1 to MaxEntries entries, the empty parameter and one list of 6.
CompareInputs ==
    UNION { [1..n -> CompareEntries] : n \in 1..MaxEntries }
    \cup { << <<>> >>, [i \in 1..6 |-> <<"T", "C", "S">>] }

\* agent = MarketDataAgent(): one object for the request
NewAgent == "MarketDataAgent object"

HTTPException(status_code, detail) == [status_code |-> status_code, detail |-> detail]

\* [q for q in quotes if not isinstance(q, Exception)], in the order of quotes
valid_quotes_mutant(fetches) ==
    LET quotes == [i \in 1..Len(fetches) |-> fetches[i].result]
    IN  IF Len(quotes) > 1 /\ ~IsException(quotes[1])
        THEN SelectSeq(Tail(quotes), LAMBDA q : ~IsException(q))
        ELSE SelectSeq(quotes, LAMBDA q : ~IsException(q))

valid_quotes(fetches) ==
    LET quotes == [i \in 1..Len(fetches) |-> fetches[i].result]
    IN  SelectSeq(quotes, LAMBDA q : ~IsException(q))

\* max(quotes, key=lambda x: x[key]) and min: the first of the best
max_by(quotes, key) ==
    quotes[CHOOSE i \in 1..Len(quotes) :
             /\ \A j \in 1..Len(quotes) : quotes[j][key] <= quotes[i][key]
             /\ \A j \in 1..(i - 1) : quotes[j][key] < quotes[i][key]]

min_by(quotes, key) ==
    quotes[CHOOSE i \in 1..Len(quotes) :
             /\ \A j \in 1..Len(quotes) : quotes[j][key] >= quotes[i][key]
             /\ \A j \in 1..(i - 1) : quotes[j][key] > quotes[i][key]]

\* compare_stocks up to the gather: the parameter is split, trimmed and
\* upper-cased, then rejected with 400 or handed to one task per ticker.
CompareRequest ==
    /\ http = Idle
    /\ \E entries \in CompareInputs :
         LET ticker_list == [i \in 1..Len(entries) |-> upper(strip(entries[i]))]
             invalid == {i \in 1..Len(ticker_list) : ~validate_ticker(Str(ticker_list[i]))}
             rejected(detail) ==
                 [ op |-> "compare", pc |-> "done", input |-> entries,
                   ticker_list |-> ticker_list, fetches |-> <<>>, provider_calls |-> <<>>,
                   response |-> HTTPException(400, detail) ]
         IN  http' =
               IF Len(ticker_list) < 2
               THEN rejected(<<"Please provide at least 2 tickers to compare">>)
               ELSE IF Len(ticker_list) > 5
               THEN rejected(<<"Maximum 5 stocks can be compared at once">>)
               ELSE IF invalid # {}
               THEN rejected(<<"Invalid ticker format: ",
                               ticker_list[CHOOSE i \in invalid : \A j \in invalid : i <= j]>>)
               ELSE [ op |-> "compare", pc |-> "gather", input |-> entries,
                      ticker_list |-> ticker_list, fetches |-> <<>>,
                      provider_calls |-> <<>>, response |-> Unset ]
    /\ UNCHANGED <<pipeline_vars, call, market_data_cache>>

\* The running task of asyncio.gather, agent.get_quick_quote(ticker) through
\* the cache and the retry wrapper: a cache hit, or one attempt of the body
\* and what tenacity does with its outcome.  A task never suspends before it
\* ends unless it waits for another attempt (the provider call blocks), so
\* the tasks run one after the other in the order of the list.
QuoteTask ==
    /\ http.op = "compare"
    /\ http.pc = "gather"
    /\ Len(http.fetches) < Len(http.ticker_list)
    /\ \E reply \in QuoteAnswers :
         LET t == http.ticker_list[Len(http.fetches) + 1]
             key == cache_key("get_quick_quote", <<NewAgent, t>>, EmptyDict)
             outcome == get_quick_quote(t, reply)
             provider_calls == Append(http.provider_calls, reply)
             fetch == cached(market_data_cache, key, t, provider_calls, outcome)
         IN  IF key \notin DOMAIN market_data_cache
                /\ retry_on_failure(outcome, Len(provider_calls), max_attempts)
             THEN /\ http' = [http EXCEPT !.provider_calls = provider_calls]
                  /\ UNCHANGED market_data_cache
             ELSE /\ http' = [http EXCEPT !.fetches = Append(@, fetch),
                                          !.provider_calls = <<>>]
                  /\ market_data_cache' = cache_after(market_data_cache, key, fetch)
    /\ UNCHANGED <<pipeline_vars, call>>

\* compare_stocks after the gather.
CompareRespond ==
    /\ http.op = "compare"
    /\ http.pc = "gather"
    /\ Len(http.fetches) = Len(http.ticker_list)
    /\ LET valid == valid_quotes(http.fetches)
       IN  http' = [http EXCEPT
             !.pc = "done",
             !.response =
               IF valid = <<>>
               THEN HTTPException(404,
                      <<"Could not fetch data for any of the provided tickers">>)
               ELSE [ status_code |-> 200,
                      tickers |-> http.ticker_list,
                      comparison_data |->
                        [ stocks |-> valid,
                          metrics |->
                            [ highest_price |-> max_by(valid, "price").ticker,
                              lowest_price |-> min_by(valid, "price").ticker,
                              best_performer |-> max_by(valid, "change_percent").ticker,
                              worst_performer |-> min_by(valid, "change_percent").ticker ] ] ] ]
    /\ UNCHANGED <<pipeline_vars, call, market_data_cache>>

\* hist = await self.get_historical_data(ticker, period="1y"), as
\* MarketDataAgent.analyze calls it: the call is entered.
HistoricalDataCall ==
    /\ http = Idle
    /\ \E t \in {<<"T", "C", "S">>, <<"I", "N", "F", "Y">>} :
         http' = [ op |-> "history", pc |-> "fetch", input |-> t, ticker_list |-> <<t>>,
                   fetches |-> <<>>, provider_calls |-> <<>>, response |-> Unset ]
    /\ UNCHANGED <<pipeline_vars, call, market_data_cache>>

\* One attempt of get_historical_data's body and what tenacity does with its
\* outcome; the call ends when no other attempt follows.
HistoricalDataAttempt ==
    /\ http.op = "history"
    /\ http.pc = "fetch"
    /\ \E reply \in HistoryAnswers :
         LET t == http.ticker_list[1]
             key == cache_key("get_historical_data", <<NewAgent, t>>, [period |-> "1y"])
             outcome == get_historical_data(t, reply)
             provider_calls == Append(http.provider_calls, reply)
             fetch == cached(market_data_cache, key, t, provider_calls, outcome)
         IN  IF key \notin DOMAIN market_data_cache
                /\ retry_on_failure(outcome, Len(provider_calls), max_attempts)
             THEN /\ http' = [http EXCEPT !.provider_calls = provider_calls]
                  /\ UNCHANGED market_data_cache
             ELSE /\ http' = [http EXCEPT !.pc = "done",
                                          !.fetches = Append(@, fetch),
                                          !.provider_calls = <<>>]
                  /\ market_data_cache' = cache_after(market_data_cache, key, fetch)
    /\ UNCHANGED <<pipeline_vars, call>>

\* The ticker of the path of /quote/{ticker} and /analyze/{ticker}.
PathTickers ==
    { <<"T", "C", "S">>, <<"t", "c", "s">>, <<"I", "N", "F", "Y", ".", "N", "S">>,
      <<"B", "!">>, <<"T", " ", "S">> }

InvalidTicker(path_ticker) ==
    HTTPException(400, <<"Invalid ticker format: ", path_ticker,
                         ". Please provide a valid stock symbol.">>)

\* get_quote entered without the check of validate_ticker.
QuoteRequest_mutant ==
    /\ http = Idle
    /\ \E path_ticker \in PathTickers :
         http' = [ op |-> "quote", pc |-> "fetch", input |-> path_ticker,
                   ticker_list |-> <<upper(path_ticker)>>, fetches |-> <<>>,
                   provider_calls |-> <<>>, response |-> Unset ]
    /\ UNCHANGED <<pipeline_vars, call, market_data_cache>>

\* get_quote up to the call of agent.get_quick_quote: 400 for a ticker that
\* validate_ticker rejects.
QuoteRequest ==
    /\ http = Idle
    /\ \E path_ticker \in PathTickers :
         http' = [ op |-> "quote",
                   pc |-> IF validate_ticker(Str(path_ticker)) THEN "fetch" ELSE "done",
                   input |-> path_ticker,
                   ticker_list |-> <<upper(path_ticker)>>,
                   fetches |-> <<>>,
                   provider_calls |-> <<>>,
                   response |-> IF validate_ticker(Str(path_ticker)) THEN Unset
                                ELSE InvalidTicker(path_ticker) ]
    /\ UNCHANGED <<pipeline_vars, call, market_data_cache>>

\* QuoteResponse(**quote), or the HTTPException get_quote makes of what the
\* fetch raised: 400 for a ValueError, 404 for anything else.
quote_response(path_ticker, outcome) ==
    IF ~IsException(outcome) THEN [status_code |-> 200, quote |-> outcome]
    ELSE IF outcome.exception = "ValueError" THEN HTTPException(400, outcome.message)
    ELSE HTTPException(404, <<"Could not fetch quote for ", path_ticker,
                              ". Please verify the ticker symbol and try again.">>)

\* One attempt of agent.get_quick_quote(ticker_upper) for get_quote and what
\* tenacity does with its outcome; when no other attempt follows, the
\* handler answers.
QuoteFetch ==
    /\ http.op = "quote"
    /\ http.pc = "fetch"
    /\ \E reply \in QuoteAnswers :
         LET t == http.ticker_list[1]
             key == cache_key("get_quick_quote", <<NewAgent, t>>, EmptyDict)
             outcome == get_quick_quote(t, reply)
             provider_calls == Append(http.provider_calls, reply)
             fetch == cached(market_data_cache, key, t, provider_calls, outcome)
         IN  IF key \notin DOMAIN market_data_cache
                /\ retry_on_failure(outcome, Len(provider_calls), max_attempts)
             THEN /\ http' = [http EXCEPT !.provider_calls = provider_calls]
                  /\ UNCHANGED market_data_cache
             ELSE /\ http' = [http EXCEPT
                               !.pc = "done",
                               !.fetches = Append(@, fetch),
                               !.provider_calls = <<>>,
                               !.response = quote_response(http.input, fetch.result)]
                  /\ market_data_cache' = cache_after(market_data_cache, key, fetch)
    /\ UNCHANGED <<pipeline_vars, call>>

\* analyze_stock up to the first step of run_analysis_pipeline(ticker_upper):
\* 400 for a ticker that validate_ticker rejects, otherwise the pipeline is
\* entered as in StartPipeline.
AnalyzeRequest ==
    /\ http = Idle
    /\ pc = "idle"
    /\ \E path_ticker \in PathTickers :
         IF validate_ticker(Str(path_ticker))
         THEN /\ http' = [ op |-> "analyze", pc |-> "pipeline", input |-> path_ticker,
                           ticker_list |-> <<upper(path_ticker)>>, fetches |-> <<>>,
                           provider_calls |-> <<>>, response |-> Unset ]
              /\ ticker' = upper(path_ticker)
              /\ invoked' = [invoked EXCEPT !.market = @ + 1]
              /\ pc' = "FETCHING_MARKET"
         ELSE /\ http' = [ op |-> "analyze", pc |-> "done", input |-> path_ticker,
                           ticker_list |-> <<upper(path_ticker)>>, fetches |-> <<>>,
                           provider_calls |-> <<>>, response |-> InvalidTicker(path_ticker) ]
              /\ UNCHANGED <<pc, ticker, invoked>>
    /\ UNCHANGED <<market_data, company_name, task, fundamental_analysis, technical_analysis,
                   strategy_args, recommendation, result, answers, call, market_data_cache>>

\* analyze_stock after run_analysis_pipeline returned: 500 for a failed run,
\* otherwise the AnalysisResponse.
AnalyzeRespond ==
    /\ http.op = "analyze"
    /\ http.pc = "pipeline"
    /\ result # Unset
    /\ http' = [http EXCEPT
         !.pc = "done",
         !.response =
           IF Get(result, "status", "None") = "failed"
           THEN HTTPException(500, Get(result, "error", <<"Analysis failed">>))
           ELSE [ status_code |-> 200,
                  ticker |-> http.ticker_list[1],
                  name |-> Get(result, "company_name", http.ticker_list[1]),
                  market_data |-> Get(result, "market_data", EmptyDict),
                  fundamental_analysis |-> Get(result, "fundamental_analysis", EmptyDict),
                  technical_analysis |-> Get(result, "technical_analysis", EmptyDict),
                  recommendation |-> Get(result, "recommendation", EmptyDict) ] ]
    /\ UNCHANGED <<pipeline_vars, call, market_data_cache>>

-----------------------------------------------------------------------------
(* The helpers of utils.py and the ticker normalization of the builders,     *)
(* applied to bounded inputs.                                                *)

Repeat(c, n) == [i \in 1..n |-> c]

\* Names of 0, 1, 3, 17, 20, 21 and 25 characters, one with a blank, one with
\* a punctuation mark, one in lower case, one with an exchange suffix inside.
TickerNames ==
    { <<>>, <<"A">>, <<"T", "C", "S">>, <<"t", "c", "s">>, <<"T", " ", "S">>, <<"B", "!">>,
      <<"A", ".", "N", "S", "B">>,
      Repeat("A", 17), Repeat("A", 20), Repeat("A", 21), Repeat("A", 25) }

TickerEndings ==
    { <<>>, <<".", "N", "S">>, <<".", "B", "O">>, <<".", "n", "s">>, <<".", "N", "S", "X">>,
      <<".", "N", "S", ".", "B", "O">> }

ValidateInputs == {NoneValue} \cup {Str(name \o ending) : name \in TickerNames, ending \in TickerEndings}

ValidateCall ==
    /\ call = Idle
    /\ \E t \in ValidateInputs :
         call' = [op |-> "validate_ticker", ticker |-> t, result |-> validate_ticker(t)]
    /\ UNCHANGED <<pipeline_vars, http_vars>>

Paddings == {<<>>, <<" ">>, <<"\t", " ">>}

NormalizeInputs ==
    { before \o name \o ending \o after :
        before \in Paddings, after \in Paddings,
        name \in {<<>>, <<"T", "C", "S">>, <<"t", "c", "s">>, <<"T", " ", "S">>},
        ending \in TickerEndings }

\* _get_ticker_symbol of the three builders on one input, and the market
\* builder's applied again to its own result.
NormalizeCall ==
    /\ call = Idle
    /\ \E t \in NormalizeInputs :
         call' = [ op |-> "_get_ticker_symbol", ticker |-> t,
                   symbol |-> _get_ticker_symbol(t),
                   fundamental |-> FundamentalAgent_get_ticker_symbol(t),
                   technical |-> TechnicalAgent_get_ticker_symbol(t),
                   again |-> _get_ticker_symbol(_get_ticker_symbol(t)) ]
    /\ UNCHANGED <<pipeline_vars, http_vars>>

\* Dictionaries up to three levels deep whose values are numbers (0 among
\* them), None, strings and dictionaries.
SafeGetLeaves == {Num(0), Num(5), NoneValue, Str(<<"John">>)}

SafeGetInner == SafeGetLeaves \cup {Dict([name |-> x]) : x \in SafeGetLeaves}

SafeGetDicts ==
    {Dict([user |-> x]) : x \in SafeGetInner \cup {Dict([profile |-> y]) : y \in SafeGetInner}}
    \cup {Dict([user |-> Dict([profile |-> Num(5), name |-> x])]) : x \in SafeGetLeaves}

SafeGetPaths ==
    { <<"user">>, <<"age">>, <<"user", "profile">>, <<"user", "name">>,
      <<"user", "profile", "name">>, <<"age", "profile", "name">> }

SafeGetCall ==
    /\ call = Idle
    /\ \E dictionary \in SafeGetDicts \cup SafeGetLeaves, keys \in SafeGetPaths,
          default \in {NoneValue, Num(7)} :
         call' = [ op |-> "safe_get", dictionary |-> dictionary, keys |-> keys,
                   default |-> default, result |-> safe_get(dictionary, keys, default) ]
    /\ UNCHANGED <<pipeline_vars, http_vars>>

UtilReturn ==
    /\ call.op \in {"validate_ticker", "_get_ticker_symbol", "safe_get"}
    /\ call' = Idle
    /\ UNCHANGED <<pipeline_vars, http_vars>>

-----------------------------------------------------------------------------
(* The two analysis builders applied to bounded provider answers, and the    *)
(* strategy builder's reading of what they return.                           *)

\* info dicts of the provider: every field null or one value of each branch of
\* the _assess_* functions (ratios in hundredths).
AssessInfos ==
    [ returnOnEquity : {None, -5, 5, 12, 20},
      profitMargins : {None, 8, 15},
      trailingPE : {None, -500, 1000, 2000, 3000, 5000},
      pegRatio : {None, 80, 150},
      currentRatio : {None, 90, 120, 200},
      debtToEquity : {None, -5000, 3000, 9960, 10050, 10200, 25000},
      revenueGrowth : {None, -10, 5, 15, 25} ]

\* FundamentalAgent.analyze on one info dict, and what StrategyAgent.analyze
\* computes from its envelope: the signals, their score and the risk assessment.
AssessCall ==
    /\ call = Idle
    /\ \E info \in AssessInfos :
         LET fundamental == FundamentalAgent_analyze("TCS", FundamentalResponse(info)) IN
         call' = [ op |-> "assess",
                   info |-> info,
                   fundamental |-> fundamental,
                   fundamental_signals |-> _extract_fundamental_signals(fundamental),
                   fundamental_score |->
                       fund_score(_extract_fundamental_signals(fundamental)),
                   risk_assessment |-> _assess_risk(fundamental, EmptyDict) ]
    /\ UNCHANGED <<pipeline_vars, http_vars>>

\* Histories of 250 rows that differ in the last values of the indicators.
IndicatorHistories ==
    { [BullishHistory EXCEPT !.sma_20 = a, !.sma_50 = b, !.sma_200 = c, !.rsi = r,
                             !.macd_line = m, !.macd_hist = m - 30, !.stoch_k = k,
                             !.bb_lower = l] :
        a \in {None, 9800, 10200}, b \in {9500, 10500}, c \in {None, 9000, 11000},
        r \in {None, 2500, 5500, 7500}, m \in {50, -50}, k \in {1500, 5000, 8500},
        l \in {9000, 9950} }

\* TechnicalAgent.analyze on one history, and the signals and the technical
\* score the strategy builder computes from its envelope.
IndicatorCall ==
    /\ call = Idle
    /\ \E hist \in IndicatorHistories :
         LET technical == TechnicalAgent_analyze("TCS", hist) IN
         call' = [ op |-> "indicators",
                   hist |-> hist,
                   technical |-> technical,
                   technical_signals |-> _extract_technical_signals(technical),
                   technical_score |-> tech_score(_extract_technical_signals(technical)) ]
    /\ UNCHANGED <<pipeline_vars, http_vars>>

BuilderReturn ==
    /\ call.op \in {"assess", "indicators"}
    /\ call' = Idle
    /\ UNCHANGED <<pipeline_vars, http_vars>>

-----------------------------------------------------------------------------
(* Specifications *)

Init ==
    /\ pc = "idle"
    /\ ticker = ""
    /\ market_data = Unset
    /\ company_name = ""
    /\ task = [ fundamental |-> [state |-> "none", result |-> Unset],
                technical |-> [state |-> "none", result |-> Unset],
                finished |-> <<>> ]
    /\ fundamental_analysis = Unset
    /\ technical_analysis = Unset
    /\ strategy_args = Unset
    /\ recommendation = Unset
    /\ result = Unset
    /\ invoked = [market |-> 0, fundamental |-> 0, technical |-> 0, strategy |-> 0]
    /\ answers = [market |-> Unset, fundamental |-> Unset, technical |-> Unset]
    /\ call = Idle
    /\ market_data_cache = EmptyDict
    /\ http = Idle

Next ==
    \/ \E t \in Tickers : StartPipeline(t)
    \/ MarketAnalyze
    \/ MarketFailed
    \/ StartParallel
    \/ FundamentalStart
    \/ FundamentalFinish
    \/ TechnicalStart
    \/ TechnicalFinish
    \/ GatherReturn
    \/ StrategyAnalyze
    \/ ReturnResult

\* One run of run_analysis_pipeline.
Spec == Init /\ [][Next]_vars

\* The event loop runs every coroutine that is ready: no enabled step of the
\* run is postponed for ever.
FairSpec == Spec /\ WF_vars(Next)

ScoreNext == ScoreCall \/ RecommendCall \/ ScoreReturn

\* The scoring functions applied to every input of the bounded sets.
ScoreSpec == Init /\ [][ScoreNext]_vars

StrategyNext == TargetCall \/ RiskCall \/ FactorCall \/ ConfidenceCall \/ StrategyReturn

\* The other helpers of StrategyAgent.analyze applied to bounded inputs.
StrategySpec == Init /\ [][StrategyNext]_vars

FetchNext ==
    CompareRequest \/ QuoteTask \/ CompareRespond \/ HistoricalDataCall \/ HistoricalDataAttempt

\* One /compare request, or one call of get_historical_data, on a fresh cache.
FetchSpec == Init /\ [][FetchNext]_vars

ApiNext ==
    \/ QuoteRequest
    \/ QuoteFetch
    \/ AnalyzeRequest
    \/ MarketAnalyze
    \/ MarketFailed
    \/ StartParallel
    \/ FundamentalStart
    \/ FundamentalFinish
    \/ TechnicalStart
    \/ TechnicalFinish
    \/ GatherReturn
    \/ StrategyAnalyze
    \/ ReturnResult
    \/ AnalyzeRespond
    \/ CompareRequest
    \/ QuoteTask
    \/ CompareRespond

\* One request to /quote, /analyze or /compare.
ApiSpec == Init /\ [][ApiNext]_vars

BuilderNext == AssessCall \/ IndicatorCall \/ BuilderReturn

\* The fundamental and the technical builder applied to bounded provider answers.
BuilderSpec == Init /\ [][BuilderNext]_vars

UtilNext == ValidateCall \/ NormalizeCall \/ SafeGetCall \/ UtilReturn

\* validate_ticker, _get_ticker_symbol and safe_get applied to bounded inputs.
UtilSpec == Init /\ [][UtilNext]_vars

-----------------------------------------------------------------------------
(* Properties of the pipeline, checked under Spec and FairSpec *)

\* The failure envelope of graph.py 53-56 for the error the market builder gave.
MarketFailure ==
    [ status |-> "failed",
      error |-> <<"Failed to fetch market data: ", market_data.error>> ]

\* C1: when the market-data builder returned an envelope with status 'error',
\* the run returns {status: 'failed', error: <message carrying that error>}
\* and the fundamental, technical and strategy builders are never invoked.
C1_MarketFailureAborts ==
    market_data.status = "error" =>
      /\ invoked.fundamental = 0 /\ invoked.technical = 0 /\ invoked.strategy = 0
      /\ pc \in {"FETCHING_MARKET", "FAILED"}
      /\ pc = "FETCHING_MARKET" =>
           /\ result = Unset
           /\ ENABLED MarketFailed
           /\ ~ ENABLED StartParallel
      /\ pc = "FAILED" => result = MarketFailure

C1_Witness ==
    /\ pc = "FAILED"
    /\ market_data.status = "error"
    /\ market_data.error = <<"No historical data available for ", ticker>>
    /\ result = MarketFailure
    /\ invoked = [market |-> 1, fundamental |-> 0, technical |-> 0, strategy |-> 0]

\* The success envelope of graph.py 86-94 with the four envelopes of the run.
ReturnedSuccess ==
    /\ DOMAIN result = { "ticker", "company_name", "market_data", "fundamental_analysis",
                         "technical_analysis", "recommendation", "status" }
    /\ result.status = "success"
    /\ result.ticker = ticker
    /\ result.company_name \in {ticker, market_data.data.basic_info.name}
    /\ result.market_data = market_data
    /\ result.fundamental_analysis = task.fundamental.result
    /\ result.technical_analysis = task.technical.result
    /\ result.recommendation = recommendation
    /\ \A k \in {"fundamental_analysis", "technical_analysis", "recommendation"} :
         result[k].status \in {"success", "error"}

\* C2: once the market-data builder has returned a success envelope the run
\* always eventually returns a 'success' envelope with ticker, company_name and
\* the four sub-results, whatever the statuses of the fundamental, technical
\* and strategy envelopes; FAILED is reached only from the market-data step.
C2_DegradeDontAbort ==
    /\ (market_data.status = "success") ~> (pc = "DONE" /\ ReturnedSuccess)
    /\ [](pc = "DONE" => ReturnedSuccess)
    /\ [](pc = "FAILED" =>
            /\ market_data.status = "error"
            /\ invoked.fundamental = 0 /\ invoked.technical = 0 /\ invoked.strategy = 0)

C2_Witness ==
    /\ pc = "DONE"
    /\ ReturnedSuccess
    /\ result.fundamental_analysis.status = "error"
    /\ result.technical_analysis.status = "error"
    /\ result.recommendation.status = "error"

\* C3: a pipeline result with status 'success' never carries a recommendation
\* envelope whose status is 'error'.
C3_SuccessIsComplete ==
    result.status = "success" => result.recommendation.status # "error"

\* C4: the market-data builder completes before the fundamental or the
\* technical builder starts, the strategy builder starts only after both have
\* completed, and it receives exactly the three envelopes they returned.
C4_BuilderOrder ==
    /\ \A b \in DOMAIN invoked : invoked[b] <= 1
    /\ (invoked.fundamental > 0 \/ invoked.technical > 0) =>
         /\ invoked.market = 1
         /\ market_data # Unset
    /\ (task.fundamental.state \in {"running", "done"}) = (invoked.fundamental = 1)
    /\ (task.technical.state \in {"running", "done"}) = (invoked.technical = 1)
    /\ invoked.strategy > 0 =>
         /\ task.fundamental.state = "done"
         /\ task.technical.state = "done"
         /\ strategy_args = [ ticker |-> ticker,
                              market_data |-> market_data,
                              fundamental_analysis |-> task.fundamental.result,
                              technical_analysis |-> task.technical.result ]
    /\ recommendation # Unset => invoked.strategy = 1

C4_Witness ==
    /\ pc = "AGGREGATING"
    /\ invoked = [market |-> 1, fundamental |-> 1, technical |-> 1, strategy |-> 1]
    /\ recommendation = Unset
    /\ strategy_args.market_data = market_data
    /\ strategy_args.fundamental_analysis.status = "success"
    /\ strategy_args.technical_analysis.status = "error"

\* C5: StrategyAgent.analyze returns a success envelope for envelopes in which
\* fields are absent or null (a null 1-month return, a null volume, a null
\* current price in a successful market snapshot); it never ends in an error
\* envelope because of a missing field.
C5_MissingFieldsNeverFail ==
    (recommendation # Unset /\ strategy_args.market_data.status = "success")
      => recommendation.status = "success"

\* The envelopes the builders have returned so far in the run.
Returned ==
    {market_data, task.fundamental.result, task.technical.result, recommendation} \ {Unset}

\* C6: each builder's analyze ends in an envelope: an internal failure gives
\* status 'error' with an 'error' message, empty data, empty insight and
\* confidence 0.0, a run without failure gives status 'success' and no 'error'
\* field, and the status is always 'success' or 'error'.
C6_EnvelopeShape ==
    /\ \A e \in Returned :
         /\ e.status \in {"success", "error"}
         /\ e.status = "error" =>
              /\ DOMAIN e = {"agent", "data", "insight", "confidence", "status", "error"}
              /\ e.error # <<>>
              /\ e.data = EmptyDict
              /\ e.insight = ""
              /\ e.confidence = 0
         /\ e.status = "success" =>
              DOMAIN e = {"agent", "data", "insight", "confidence", "status"}
    /\ market_data # Unset =>
         (market_data.status = "error") = market_analyze_raises(answers.market)
    /\ task.fundamental.result # Unset =>
         (task.fundamental.result.status = "error") = answers.fundamental.info_raises
    /\ task.technical.result # Unset =>
         (task.technical.result.status = "error")
           = (technical_analyze_raises(answers.technical) \/ answers.technical.rows = 0)
    /\ recommendation # Unset =>
         (recommendation.status = "error")
           = strategy_analyze_raises(strategy_args.market_data,
                                     strategy_args.fundamental_analysis,
                                     strategy_args.technical_analysis)

C6_Witness ==
    /\ recommendation # Unset
    /\ recommendation.status = "error"
    /\ recommendation.data = EmptyDict
    /\ market_data.status = "success"
    /\ task.fundamental.result.status = "error"
    /\ task.technical.result.status = "success"

-----------------------------------------------------------------------------
(* Properties of the scoring rules, checked under ScoreSpec *)

\* The clamp to [0,100] as the specification words it.
ClampTo0_100(x) == IF x < 0 THEN 0 ELSE IF x > 100 THEN 100 ELSE x

ProfitabilityDelta(l) ==
    CASE l = "Strong" -> 20 [] l = "Good" -> 15 [] l = "Moderate" -> 5 [] l = "Weak" -> -10
      [] OTHER -> 0
ValuationDelta(l) ==
    CASE l = "Undervalued (PEG < 1)" -> 20 [] l = "Attractively valued" -> 15
      [] l = "Fairly valued" -> 5 [] l = "Premium valuation" -> -5 [] l = "Expensive" -> -15
      [] OTHER -> 0
HealthDelta(l) ==
    CASE l = "Strong" -> 15 [] l = "Healthy" -> 10 [] l = "Moderate" -> 0
      [] l = "Needs Attention" -> -15 [] OTHER -> 0
GrowthDelta(l) ==
    CASE l = "High Growth" -> 15 [] l = "Moderate Growth" -> 10 [] l = "Low Growth" -> 0
      [] l = "Declining" -> -15 [] OTHER -> 0
TrendDelta(l) ==
    CASE l = "Strong Bullish" -> 25 [] l = "Bullish" -> 15 [] l = "Neutral" -> 0
      [] l = "Bearish" -> -20 [] OTHER -> 0
OverallSignalDelta(l) ==
    CASE l = "Bullish" -> 15 [] l = "Neutral" -> 0 [] l = "Bearish" -> -15 [] OTHER -> 0

\* C7: for every combination of the four category labels, fundamental_score is
\* 50 plus the per-label deltas of the specification's tables (any other label
\* 0), clamped to [0,100]; Strong / Attractively valued / Strong / Moderate
\* Growth gives 100.
C7_FundamentalScore ==
    call.op = "score" =>
      LET f == call.fundamental IN
      /\ call.scores.fundamental_score =
           ClampTo0_100(50 + ProfitabilityDelta(f.profitability) + ValuationDelta(f.valuation)
                           + HealthDelta(f.financial_health) + GrowthDelta(f.growth))
      /\ ( /\ f.profitability = "Strong" /\ f.valuation = "Attractively valued"
           /\ f.financial_health = "Strong" /\ f.growth = "Moderate Growth" )
         => call.scores.fundamental_score = 100

C7_Witness ==
    /\ call.op = "score"
    /\ call.fundamental.profitability = "Strong"
    /\ call.fundamental.valuation = "Attractively valued"
    /\ call.fundamental.financial_health = "Strong"
    /\ call.fundamental.growth = "Moderate Growth"
    /\ call.scores.fundamental_score = 100

\* C8: for every trend label, overall-signal label and pair of signal lists,
\* technical_score is 50 + trend delta + overall-signal delta + 3 x (number of
\* bullish signals) - 3 x (number of bearish signals), clamped to [0,100];
\* Bearish / Bearish / 0 bullish / 2 bearish gives 9.
C8_TechnicalScore ==
    call.op = "score" =>
      LET t == call.technical IN
      /\ call.scores.technical_score =
           ClampTo0_100(50 + TrendDelta(t.trend) + OverallSignalDelta(t.overall_signal)
                           + 3 * Len(t.bullish_signals) - 3 * Len(t.bearish_signals))
      /\ ( /\ t.trend = "Bearish" /\ t.overall_signal = "Bearish"
           /\ Len(t.bullish_signals) = 0 /\ Len(t.bearish_signals) = 2 )
         => call.scores.technical_score = 9

C8_Witness ==
    /\ call.op = "score"
    /\ call.technical.trend = "Bearish"
    /\ call.technical.overall_signal = "Bearish"
    /\ Len(call.technical.bullish_signals) = 0
    /\ Len(call.technical.bearish_signals) = 2
    /\ call.scores.technical_score = 9

\* C9: overall_score is floor(fundamental_score x 0.6 + technical_score x 0.4),
\* and the three scores are integers in [0,100] for any labels and any number
\* of signals.
C9_OverallScore ==
    call.op = "score" =>
      LET f == call.scores.fundamental_score
          t == call.scores.technical_score
          o == call.scores.overall_score
      IN  /\ f \in 0..100 /\ t \in 0..100 /\ o \in 0..100
          /\ 10 * o <= 6 * f + 4 * t
          /\ 6 * f + 4 * t < 10 * (o + 1)

\* The fundamental clamp acts (raw 115) and the blend has a fractional part to
\* drop: 0.6 x 100 + 0.4 x 9 = 63.6.
C9_Witness ==
    /\ call.op = "score"
    /\ call.fundamental.profitability = "Strong"
    /\ call.fundamental.valuation = "Undervalued (PEG < 1)"
    /\ call.fundamental.financial_health = "Strong"
    /\ call.fundamental.growth = "Moderate Growth"
    /\ call.technical.trend = "Bearish"
    /\ call.technical.overall_signal = "Bearish"
    /\ Len(call.technical.bullish_signals) = 0
    /\ Len(call.technical.bearish_signals) = 2
    /\ call.scores = [fundamental_score |-> 100, technical_score |-> 9, overall_score |-> 63]

ActionRank(a) ==
    CASE a = "Sell" -> 0 [] a = "Reduce" -> 1 [] a = "Hold" -> 2 [] a = "Buy" -> 3
      [] a = "Strong Buy" -> 4

ActionBand(s) ==
    IF s >= 75 THEN "Strong Buy" ELSE IF s >= 60 THEN "Buy" ELSE IF s >= 45 THEN "Hold"
    ELSE IF s >= 30 THEN "Reduce" ELSE "Sell"

\* C10: the action label is a function of overall_score alone (>=75 Strong Buy,
\* >=60 Buy, >=45 Hold, >=30 Reduce, else Sell, so 62 gives Buy), a higher
\* overall_score never yields a lower-ranked action, and the score reported in
\* the recommendation equals overall_score.
C10_ActionLabel ==
    /\ call.op \in {"score", "recommend"} =>
         LET o == call.scores.overall_score
             r == call.recommendation
         IN  /\ r.action = ActionBand(o)
             /\ r.score = o
             /\ (o = 62 => r.action = "Buy")
    /\ call.op = "recommend" =>
         \A s \in 0..100 :
           LET a == _generate_recommendation([overall_score |-> s]).action IN
           /\ s >= call.scores.overall_score
                => ActionRank(a) >= ActionRank(call.recommendation.action)
           /\ s <= call.scores.overall_score
                => ActionRank(a) <= ActionRank(call.recommendation.action)

C10_Witness ==
    /\ call.op = "score"
    /\ call.scores.overall_score = 62
    /\ call.recommendation.action = "Buy"
    /\ call.recommendation.score = 62

-----------------------------------------------------------------------------
(* Properties of the target price, the risk assessment, the factor lists and *)
(* the confidence, checked under StrategySpec                                *)

\* v is the fraction n / d (d > 0) rounded to a whole number.
NearTo(v, n, d) == 2 * Abs(v * d - n) <= d

\* The inputs of a target-price call, as the envelopes carry them.
TargetPriceData == Get(Get(call.market, "data", EmptyDict), "price_data", EmptyDict)
TargetSR == Get(Get(call.technical, "data", EmptyDict), "support_resistance", EmptyDict)
TargetPE ==
    Get(Get(Get(call.fundamental, "data", EmptyDict), "valuation", EmptyDict), "pe_ratio", None)
TargetGrowth ==
    Get(Get(Get(call.fundamental, "data", EmptyDict), "growth", EmptyDict),
        "revenue_growth", None)

\* The targets of the specification as fractions <<n, d>> for a positive
\* price: the P/E-based mid-target for every P/E (any_sign) or for a positive
\* P/E only, with the price itself for a negative one.
SpecResistance(price) ==
    IF "nearest_resistance" \in DOMAIN TargetSR
    THEN <<TargetSR.nearest_resistance, 1>> ELSE <<11 * price, 10>>

\* mid-target / current_price
SpecMidRatio(price, any_sign) ==
    LET pe == TargetPE
        growth == TargetGrowth
        res == SpecResistance(price)
    IN  IF pe # None /\ pe # 0 /\ growth # None /\ growth > 0
        THEN IF pe > 0 \/ any_sign
             THEN IF 12 * pe <= 10 * 4000 THEN <<12, 10>> ELSE <<4000, pe>>
             ELSE <<1, 1>>
        ELSE <<res[1], res[2] * price>>

SpecMid(price, any_sign) ==
    LET r == SpecMidRatio(price, any_sign) IN Frac(r[1] * price, r[2])

SpecHigh(price, any_sign) ==
    LET mid == SpecMid(price, any_sign)
        res == SpecResistance(price)
    IN  FracMin(Frac(11 * mid[1], 10 * mid[2]), Frac(105 * res[1], 100 * res[2]))

TargetAsSpecified(any_sign) ==
    LET price == TargetPriceData.current_price
        ratio == SpecMidRatio(price, any_sign)
        mid == SpecMid(price, any_sign)
        high == SpecHigh(price, any_sign)
        tp == call.target_price
    IN  /\ ~ call.raised
        /\ NearTo(tp.low, 95 * price, 100)
        /\ NearTo(tp.mid, mid[1], mid[2])
        /\ NearTo(tp.high, high[1], high[2])
        /\ tp.upside_percent % 10 = 0
        /\ NearTo(tp.upside_percent \div 10, (ratio[1] - ratio[2]) * 1000, ratio[2])

PositivePriceCall ==
    /\ call.op = "target"
    /\ "current_price" \in DOMAIN TargetPriceData
    /\ TargetPriceData.current_price # None
    /\ TargetPriceData.current_price > 0

\* C11: for every positive current price, with a nonzero trailing P/E and a
\* positive revenue growth the mid-target is current_price x min(P/E x 1.2, 40)
\* / P/E when the P/E is positive and current_price itself when it is negative;
\* otherwise it is the nearest resistance (current_price x 1.1 when there is
\* none); low = current_price x 0.95, high = min(mid x 1.1, resistance x 1.05),
\* upside% = (mid - current_price) / current_price x 100, each rounded.
C11_TargetPrice == PositivePriceCall => TargetAsSpecified(FALSE)

\* The cap of 40 acts: P/E 50 gives mid = 10 x 40 / 50 = 8.
C11_Witness ==
    /\ PositivePriceCall
    /\ TargetPriceData.current_price = 1000
    /\ TargetPE = 5000
    /\ TargetGrowth = 2500
    /\ SpecResistance(1000) = <<900, 1>>
    /\ call.target_price = [low |-> 950, mid |-> 800, high |-> 880, upside_percent |-> -2000]

\* C11 as stated: the P/E-based mid-target whatever the sign of the P/E.
C11_AnySignPE == PositivePriceCall => TargetAsSpecified(TRUE)

\* C27: for every positive current price and every combination of P/E, revenue
\* growth and nearest resistance the target price range is ordered:
\* low <= mid <= high.
C27_TargetRangeOrdered ==
    (PositivePriceCall /\ ~ call.raised)
      => /\ call.target_price.low <= call.target_price.mid
         /\ call.target_price.mid <= call.target_price.high

\* What holds of the range instead: low is 0.95 x price, and high is never
\* above 1.1 x mid nor above 1.05 x the resistance in use, which may lie under
\* the price or under the mid-target.
TargetRangeBounds ==
    (PositivePriceCall /\ ~ call.raised)
      => LET price == TargetPriceData.current_price
             res == SpecResistance(price)
             tp == call.target_price
         IN  /\ NearTo(tp.low, 95 * price, 100)
             /\ 10 * tp.high <= 11 * tp.mid + 10
             /\ 100 * res[2] * tp.high <= 105 * res[1] + 100 * res[2]

\* C12: with a current price that is zero, absent or null the target price is
\* exactly {low: 0, mid: 0, high: 0, upside_percent: 0}, whatever the
\* fundamental and technical inputs.
C12_ZeroTarget ==
    ( /\ call.op = "target"
      /\ Get(TargetPriceData, "current_price", 0) \in {0, None} )
      => /\ ~ call.raised
         /\ call.target_price = [low |-> 0, mid |-> 0, high |-> 0, upside_percent |-> 0]

\* The five risk conditions of a risk call, in the order of evaluation, with
\* their weights and factor texts.
RiskFund == Get(call.fundamental, "data", EmptyDict)
RiskTech == Get(call.technical, "data", EmptyDict)

RiskMatched ==
    LET debt == Get(Get(RiskFund, "financial_health", EmptyDict), "debt_to_equity", None)
    IN  << debt # None /\ debt > 100,
           Get(Get(RiskFund, "profitability", EmptyDict), "assessment", "None")
               \in {"Weak", "Moderate"},
           Get(Get(RiskFund, "growth", EmptyDict), "assessment", "None") = "Declining",
           Get(Get(Get(RiskTech, "indicators", EmptyDict), "atr", EmptyDict),
               "volatility", "None") = "High Volatility",
           Get(Get(RiskTech, "trend", EmptyDict), "overall_trend", "None") = "Bearish" >>

RiskWeight == <<20, 15, 15, 15, 20>>

RiskFactor ==
    << <<"High debt levels">>, <<"Weak profitability">>, <<"Declining growth">>,
       <<"High price volatility">>, <<"Bearish price trend">> >>

RECURSIVE RiskSum(_)
RiskSum(n) == IF n = 0 THEN 0 ELSE RiskSum(n - 1) + (IF RiskMatched[n] THEN RiskWeight[n] ELSE 0)

RECURSIVE RiskFactors(_)
RiskFactors(n) ==
    IF n = 0 THEN <<>>
    ELSE RiskFactors(n - 1) \o (IF RiskMatched[n] THEN <<RiskFactor[n]>> ELSE <<>>)

\* C13: for every subset of the five risk conditions the risk score is the sum
\* of the matched weights (20, 15, 15, 15, 20), the level is High iff the score
\* is >= 50, Moderate iff 30 <= score < 50 and Low otherwise, and the factor
\* list holds exactly the matched factors in the order of evaluation.
C13_RiskAssessment ==
    call.op = "risk" =>
      LET r == call.risk_assessment IN
      /\ r.score = RiskSum(5)
      /\ (r.level = "High") = (r.score >= 50)
      /\ (r.level = "Moderate") = (r.score >= 30 /\ r.score < 50)
      /\ (r.level = "Low") = (r.score < 30)
      /\ r.factors = RiskFactors(5)

\* Debt, profitability and growth matched: 20 + 15 + 15 is exactly 50.
C13_Witness ==
    /\ call.op = "risk"
    /\ RiskMatched = <<TRUE, TRUE, TRUE, FALSE, FALSE>>
    /\ call.risk_assessment =
         [ level |-> "High", score |-> 50,
           factors |-> << <<"High debt levels">>, <<"Weak profitability">>,
                          <<"Declining growth">> >> ]

\* The matched fundamental factors of a factor call in the fixed order
\* profitability, valuation, growth, financial health.
When(cond, text) == IF cond THEN <<text>> ELSE <<>>

BullishFundamental ==
    LET f == call.fundamental IN
    When(f.profitability \in {"Strong", "Good"}, <<"Strong profitability">>)
    \o When(f.valuation \in {"Undervalued (PEG < 1)", "Attractively valued"},
            <<"Attractive valuation">>)
    \o When(f.growth \in {"High Growth", "Moderate Growth"}, <<"Growing revenue">>)
    \o When(f.financial_health \in {"Strong", "Healthy"}, <<"Healthy balance sheet">>)

BearishFundamental ==
    LET f == call.fundamental IN
    When(f.profitability = "Weak", <<"Weak profitability">>)
    \o When(f.valuation = "Expensive", <<"Expensive valuation">>)
    \o When(f.growth = "Declining", <<"Revenue decline">>)
    \o When(f.financial_health = "Needs Attention", <<"Balance sheet concerns">>)

\* factors is the fundamental factors followed by the first signals, as many
\* as the caps of 3 signals and 5 entries allow.
CappedFactors(factors, fund, signals) ==
    /\ Len(factors) <= 5
    /\ Len(factors) = Min(5, Len(fund) + Min(3, Len(signals)))
    /\ Len(factors) >= Len(fund)
    /\ \A i \in 1..Len(fund) : factors[i] = fund[i]
    /\ \A i \in 1..(Len(factors) - Len(fund)) : factors[Len(fund) + i] = signals[i]

\* C14: the bullish and the bearish factor list have at most 5 entries; the
\* matched fundamental factors come first in the order profitability,
\* valuation, growth, financial health, followed by at most the first 3
\* technical signals in their order: the cap drops technical signals only.
C14_FactorLists ==
    call.op = "factors" =>
      /\ CappedFactors(call.bullish, BullishFundamental, call.technical.bullish_signals)
      /\ CappedFactors(call.bearish, BearishFundamental, call.technical.bearish_signals)

\* Four fundamental factors leave room for one of four bullish signals.
C14_Witness ==
    /\ call.op = "factors"
    /\ Len(BullishFundamental) = 4
    /\ Len(call.technical.bullish_signals) = 4
    /\ call.bullish = BullishFundamental \o << <<"signal", 1>> >>
    /\ Len(call.bearish) = 3
    /\ BearishFundamental = <<>>

\* What an upstream envelope counts for in the blend: 0.5 without a
\* confidence, 0 for an error envelope, its confidence otherwise.
CountsAs(envelope) ==
    IF "confidence" \notin DOMAIN envelope THEN 50
    ELSE IF envelope.status = "error" THEN 0
    ELSE envelope.confidence

\* C15: the confidence is 0.2 x market + 0.5 x fundamental + 0.3 x technical
\* confidence (to 2 decimals): 1.0 for (1, 1, 1), 0.0 for (0, 0, 0), within
\* [0, 1] for confidences within [0, 1]; a missing confidence counts as 0.5,
\* an error envelope's as 0.
C15_WeightedConfidence ==
    call.op = "confidence" =>
      LET m == CountsAs(call.market)
          f == CountsAs(call.fundamental)
          t == CountsAs(call.technical)
          c == call.confidence
      IN  /\ NearTo(c, 20 * m + 50 * f + 30 * t, 100)
          /\ (m = 100 /\ f = 100 /\ t = 100) => c = 100
          /\ (m = 0 /\ f = 0 /\ t = 0) => c = 0
          /\ (m \in 0..100 /\ f \in 0..100 /\ t \in 0..100) => c \in 0..100

\* A market success, a fundamental error and a technical envelope without a
\* confidence: 0.2 x 0.85 + 0.5 x 0 + 0.3 x 0.5 = 0.32.
C15_Witness ==
    /\ call.op = "confidence"
    /\ Get(call.market, "status", "") = "success"
    /\ Get(call.market, "confidence", None) = 85
    /\ Get(call.fundamental, "status", "") = "error"
    /\ DOMAIN call.technical = {}
    /\ call.confidence = 32

-----------------------------------------------------------------------------
(* Properties of degraded inputs, checked under Spec *)

\* The run has a fundamental profile and a recommendation built from it.
FundamentalScored ==
    /\ recommendation.status = "success"
    /\ strategy_args.fundamental_analysis.status = "success"

Missing(info, metrics) == \E k \in metrics : Get(info, k, None) = None

\* The category's label scores 0 and none of the texts is a bearish or a
\* risk factor of the recommendation.
Neutral(delta, texts) ==
    /\ delta = 0
    /\ \A i \in DOMAIN recommendation.data.key_factors.bearish :
         recommendation.data.key_factors.bearish[i] \notin texts
    /\ \A i \in DOMAIN recommendation.data.risk_assessment.factors :
         recommendation.data.risk_assessment.factors[i] \notin texts

\* C16: when a metric (return on equity, profit margin, current ratio,
\* debt-to-equity, trailing P/E, revenue growth) is missing from a successful
\* company-info fetch, the affected category contributes exactly 0 to
\* fundamental_score and adds no bearish or risk factor.
C16_MissingMetricNeutral ==
    FundamentalScored =>
      LET info == answers.fundamental.info
          data == strategy_args.fundamental_analysis.data
      IN  /\ Missing(info, {"returnOnEquity", "profitMargins"}) =>
               Neutral(ProfitabilityDelta(data.profitability.assessment),
                       {<<"Weak profitability">>})
          /\ Missing(info, {"trailingPE"}) =>
               Neutral(ValuationDelta(data.valuation.assessment), {<<"Expensive valuation">>})
          /\ Missing(info, {"currentRatio", "debtToEquity"}) =>
               Neutral(HealthDelta(data.financial_health.assessment),
                       {<<"Balance sheet concerns">>, <<"High debt levels">>})
          /\ Missing(info, {"revenueGrowth"}) =>
               Neutral(GrowthDelta(data.growth.assessment),
                       {<<"Revenue decline">>, <<"Declining growth">>})

\* The factor texts that come from the fundamental profile and from the
\* technical profile.
FundamentalFactorTexts ==
    { <<"Strong profitability">>, <<"Attractive valuation">>, <<"Growing revenue">>,
      <<"Healthy balance sheet">>, <<"Weak profitability">>, <<"Expensive valuation">>,
      <<"Revenue decline">>, <<"Balance sheet concerns">>, <<"High debt levels">>,
      <<"Declining growth">> }

TechnicalRiskTexts == { <<"High price volatility">>, <<"Bearish price trend">> }

RecommendationFactors ==
    LET d == recommendation.data IN
    { d.key_factors.bullish[i] : i \in DOMAIN d.key_factors.bullish }
    \cup { d.key_factors.bearish[i] : i \in DOMAIN d.key_factors.bearish }
    \cup { d.risk_assessment.factors[i] : i \in DOMAIN d.risk_assessment.factors }

\* C17: when the fundamental (technical) builder returned an error envelope
\* the aggregator still returns a success envelope with fundamental_score
\* (technical_score) exactly 50, no bullish, bearish or risk factor from the
\* failed profile, and a share of 0 of that profile in the confidence.
C17_ErrorProfileNeutral ==
    recommendation # Unset =>
      LET a == strategy_args
          m == a.market_data.confidence
          f == a.fundamental_analysis.confidence
          t == a.technical_analysis.confidence
      IN  /\ a.fundamental_analysis.status = "error" =>
               /\ recommendation.status = "success"
               /\ recommendation.data.scores.fundamental_score = 50
               /\ RecommendationFactors \cap FundamentalFactorTexts = {}
               /\ NearTo(recommendation.confidence, 20 * m + 30 * t, 100)
          /\ a.technical_analysis.status = "error" =>
               /\ recommendation.status = "success"
               /\ recommendation.data.scores.technical_score = 50
               /\ RecommendationFactors \subseteq FundamentalFactorTexts
               /\ NearTo(recommendation.confidence, 20 * m + 50 * f, 100)

\* The same for the runs in which the aggregator did not raise.
ErrorProfileNeutralWhenBuilt ==
    (recommendation # Unset /\ recommendation.status = "success") => C17_ErrorProfileNeutral

\* C18: for a price series that is empty or shorter than a lookback window
\* (fewer than 20, 50 or 200 rows) the technical builder returns a success
\* envelope whose affected indicator values are null / "N/A", not an error
\* envelope.
C18_ShortSeriesTolerated ==
    LET r == task.technical.result
        a == answers.technical
    IN  (r # Unset /\ ~ a.hist_raises /\ a.rows < 200) =>
          /\ r.status = "success"
          /\ r.data.indicators.moving_averages.sma_200 = None
          /\ r.data.trend.long_term.direction = "N/A"
          /\ a.rows < 50 =>
               /\ r.data.indicators.moving_averages.sma_50 = None
               /\ r.data.trend.medium_term.direction = "N/A"
          /\ a.rows < 20 => r.data.indicators.moving_averages.sma_20 = None

\* What holds of short series: from 20 rows on the builder succeeds with
\* null / "N/A" for the windows the series does not fill.
ShortSeriesFrom20Rows ==
    (task.technical.result # Unset /\ answers.technical.rows >= 20) => C18_ShortSeriesTolerated

-----------------------------------------------------------------------------
(* The concurrent builders of run_analysis_pipeline, checked under Spec       *)

\* What a run holds once gather has returned: each envelope is what its own
\* builder makes of its own provider answer, whatever the order of the steps.
EnvelopesOfOwnBuilder ==
    /\ \A b \in DOMAIN invoked : invoked[b] <= 1
    /\ fundamental_analysis # Unset =>
          /\ fundamental_analysis = FundamentalAgent_analyze(ticker, answers.fundamental)
          /\ technical_analysis = TechnicalAgent_analyze(ticker, answers.technical)
          /\ fundamental_analysis.agent = "Fundamental Analyst"
          /\ technical_analysis.agent = "Technical Analyst"
    /\ pc = "DONE" =>
          /\ result.fundamental_analysis
               = FundamentalAgent_analyze(ticker, answers.fundamental)
          /\ result.technical_analysis = TechnicalAgent_analyze(ticker, answers.technical)
          /\ result.recommendation
               = StrategyAgent_analyze(ticker, market_data,
                                       FundamentalAgent_analyze(ticker, answers.fundamental),
                                       TechnicalAgent_analyze(ticker, answers.technical))

\* A step of one of the two concurrent builders leaves the task, the provider
\* answer and the invocation count of the other as they are, and the envelope
\* it ends with is made of the ticker and its own provider answer only.
BuilderStepIsolated ==
    (pc = "PARALLEL_ANALYSIS" /\ pc' = "PARALLEL_ANALYSIS") =>
      /\ task'.fundamental # task.fundamental =>
            /\ task'.technical = task.technical
            /\ answers'.technical = answers.technical
            /\ invoked'.technical = invoked.technical
            /\ task'.fundamental.state = "done" =>
                  task'.fundamental.result
                    = FundamentalAgent_analyze(ticker, answers'.fundamental)
      /\ task'.technical # task.technical =>
            /\ task'.fundamental = task.fundamental
            /\ answers'.fundamental = answers.fundamental
            /\ invoked'.fundamental = invoked.fundamental
            /\ task'.technical.state = "done" =>
                  task'.technical.result = TechnicalAgent_analyze(ticker, answers'.technical)

\* C28: the result of a run does not depend on how the fundamental and the
\* technical builder interleave or on which finishes first: fundamental_analysis
\* holds the fundamental builder's envelope and technical_analysis the technical
\* builder's, neither builder reads or writes state of the other, and each of
\* the four builders is invoked at most once in a run.
C28_InterleavingIndependent == []EnvelopesOfOwnBuilder /\ [][BuilderStepIsolated]_vars

\* A finished run in which the technical builder finished before the
\* fundamental one, with two envelopes that differ.
C28_Witness ==
    /\ pc = "DONE"
    /\ task.finished = <<"technical", "fundamental">>
    /\ result.status = "success"
    /\ result.fundamental_analysis.agent = "Fundamental Analyst"
    /\ result.fundamental_analysis.status = "success"
    /\ result.technical_analysis.agent = "Technical Analyst"
    /\ result.technical_analysis.status = "error"

-----------------------------------------------------------------------------
(* Properties of the market-data fetches and of /compare, checked under      *)
(* FetchSpec.                                                                *)

Transient(reply) == IsException(reply) /\ reply.exception \in RetryOn

\* What the body of the fetch in progress makes of a reply of the provider.
BodyOutcome(t, reply) ==
    IF http.op = "history" THEN get_historical_data(t, reply) ELSE get_quick_quote(t, reply)

\* C19: when the provider raises a ConnectionError or a TimeoutError during
\* get_quick_quote or get_historical_data, the fetch is attempted again, up to
\* 3 attempts in total, and the result of a later successful attempt is what
\* the caller gets: a call ends on a transient failure only at its third
\* attempt.
C19_RetryOnTransientFailure ==
    http # Idle =>
      \A i \in 1..Len(http.fetches) :
        LET fetch == http.fetches[i]
            n == Len(fetch.provider_calls)
        IN  /\ n <= max_attempts
            /\ \A k \in 1..n :
                 Transient(fetch.provider_calls[k]) => (k < n \/ k = max_attempts)
            /\ (n > 0 /\ ~ Transient(fetch.provider_calls[n]))
                 => fetch.result = BodyOutcome(fetch.ticker, fetch.provider_calls[n])

\* What holds instead: no call of a fetch asks the provider twice, and a
\* transient failure reaches the caller as a plain Exception.
FetchAttemptedOnce ==
    http # Idle =>
      /\ Len(http.provider_calls) = 0
      /\ \A i \in 1..Len(http.fetches) :
           LET fetch == http.fetches[i] IN
           /\ Len(fetch.provider_calls) <= 1
           /\ (~ fetch.cache_hit /\ Transient(fetch.provider_calls[1]))
                => (IsException(fetch.result) /\ fetch.result.exception = "Exception")

\* The quotes of the fetches that returned, in the order of the fetches.
RECURSIVE SuccessfulQuotes(_)
SuccessfulQuotes(fetches) ==
    IF fetches = <<>> THEN <<>>
    ELSE (IF IsException(Head(fetches).result) THEN <<>> ELSE <<Head(fetches).result>>)
         \o SuccessfulQuotes(Tail(fetches))

PassedValidation ==
    /\ http.op = "compare"
    /\ http.pc = "done"
    /\ http.response.status_code # 400

\* Some quote of the sequence has this ticker and is the best for the order.
NamesBest(quotes, named, key, sign) ==
    \E i \in 1..Len(quotes) :
        /\ quotes[i].ticker = named
        /\ \A j \in 1..Len(quotes) : sign * quotes[j][key] <= sign * quotes[i][key]

\* C20: a /compare request that passed validation asks a quote for every
\* ticker; the tickers whose fetch failed are dropped; comparison_data.stocks
\* is the sequence of the successful quotes in request order; each of the
\* four metrics names a ticker of a successful quote (the one with the
\* highest or lowest price or change); the response is 404 exactly when no
\* fetch succeeded, and 200 otherwise.
C20_ComparePartition ==
    PassedValidation =>
      LET successes == SuccessfulQuotes(http.fetches)
          response == http.response
      IN  /\ Len(http.fetches) = Len(http.ticker_list)
          /\ \A i \in 1..Len(http.fetches) : http.fetches[i].ticker = http.ticker_list[i]
          /\ \A i \in 1..Len(successes) :
               \E j \in 1..Len(http.ticker_list) : successes[i].ticker = http.ticker_list[j]
          /\ response.status_code \in {200, 404}
          /\ response.status_code = 404 <=> successes = <<>>
          /\ response.status_code = 200 =>
               LET stocks == response.comparison_data.stocks
                   metrics == response.comparison_data.metrics
               IN  /\ stocks = successes
                   /\ NamesBest(successes, metrics.highest_price, "price", 1)
                   /\ NamesBest(successes, metrics.lowest_price, "price", -1)
                   /\ NamesBest(successes, metrics.best_performer, "change_percent", 1)
                   /\ NamesBest(successes, metrics.worst_performer, "change_percent", -1)

\* Three tickers, the first fetch failed, the other two succeeded with
\* different prices.
C20_Witness ==
    /\ PassedValidation
    /\ http.response.status_code = 200
    /\ Len(http.ticker_list) = 3
    /\ IsException(http.fetches[1].result)
    /\ Len(http.response.comparison_data.stocks) = 2
    /\ http.response.comparison_data.metrics.highest_price
         # http.response.comparison_data.metrics.lowest_price

\* C26: one call of get_quick_quote or get_historical_data through the retry
\* wrapper runs the body at most 3 times, and a call whose body fails with
\* something else than a ConnectionError or a TimeoutError (the ValueError for
\* no or insufficient data, for example) ends with that failure after exactly
\* one run of the body.
C26_AttemptsBounded ==
    http # Idle =>
      /\ Len(http.provider_calls) < max_attempts
      /\ \A i \in 1..Len(http.fetches) :
           LET fetch == http.fetches[i]
               n == Len(fetch.provider_calls)
           IN  /\ n <= max_attempts
               /\ ~ fetch.cache_hit => n >= 1
               /\ ( /\ ~ fetch.cache_hit
                    /\ IsException(fetch.result)
                    /\ fetch.result.exception \notin RetryOn )
                    => /\ n = 1
                       /\ fetch.result = BodyOutcome(fetch.ticker, fetch.provider_calls[1])

\* A fetch that ended with the ValueError for too little data after one call
\* of the provider, which answered with a dict of fewer than five fields.
C26_Witness ==
    /\ http # Idle
    /\ Len(http.fetches) >= 1
    /\ ~ http.fetches[1].cache_hit
    /\ IsException(http.fetches[1].result)
    /\ http.fetches[1].result.exception = "ValueError"
    /\ Len(http.fetches[1].provider_calls) = 1
    /\ ~ IsException(http.fetches[1].provider_calls[1])

\* The cache key of the fetch of the request in progress for one ticker.
FetchKey(t) ==
    IF http.op = "history"
    THEN cache_key("get_historical_data", <<NewAgent, t>>, [period |-> "1y"])
    ELSE cache_key("get_quick_quote", <<NewAgent, t>>, EmptyDict)

\* The calls of the request before call i that had the ticker of call i, ran
\* the fetch and returned.  (A request is over long before the cache's time
\* to live, so no entry expires.)
StoredBefore(i) ==
    { j \in 1..(i - 1) : /\ http.fetches[j].ticker = http.fetches[i].ticker
                         /\ ~ http.fetches[j].cache_hit
                         /\ ~ IsException(http.fetches[j].result) }

\* C29: the caching wrapper stores a result only when the wrapped fetch
\* returned: after a fetch that raised the cache is as before and the next call
\* with the same key runs the fetch again, and a call whose key is in the cache
\* returns the stored result without running the fetch or its retries.  On the
\* cache of a request, empty at its start: a call is a hit exactly when an
\* earlier call with its key ran the fetch and returned, a hit gives that
\* call's result and asks the provider nothing, every other call runs the
\* fetch, and the cache holds exactly the results of the calls that returned.
C29_CacheOnlyOnReturn ==
    http # Idle =>
      /\ \A i \in 1..Len(http.fetches) :
           LET fetch == http.fetches[i] IN
           /\ fetch.cache_hit = (StoredBefore(i) # {})
           /\ fetch.cache_hit =>
                 /\ fetch.provider_calls = <<>>
                 /\ \A j \in StoredBefore(i) : fetch.result = http.fetches[j].result
           /\ ~ fetch.cache_hit => Len(fetch.provider_calls) >= 1
      /\ DOMAIN market_data_cache
           = { FetchKey(http.fetches[i].ticker) :
                 i \in { k \in 1..Len(http.fetches) : ~ IsException(http.fetches[k].result) } }
      /\ \A i \in 1..Len(http.fetches) :
           ~ IsException(http.fetches[i].result)
             => market_data_cache[FetchKey(http.fetches[i].ticker)] = http.fetches[i].result

\* Three calls with one key: the first fetch raised, the second ran again and
\* returned, the third got the stored quote without a call of the provider.
C29_Witness ==
    /\ http # Idle
    /\ http.op = "compare"
    /\ Len(http.fetches) = 3
    /\ http.fetches[1].ticker = http.fetches[2].ticker
    /\ http.fetches[2].ticker = http.fetches[3].ticker
    /\ ~ http.fetches[1].cache_hit /\ IsException(http.fetches[1].result)
    /\ ~ http.fetches[2].cache_hit /\ ~ IsException(http.fetches[2].result)
    /\ Len(http.fetches[2].provider_calls) = 1
    /\ http.fetches[3].cache_hit
    /\ http.fetches[3].provider_calls = <<>>
    /\ http.fetches[3].result = http.fetches[2].result

-----------------------------------------------------------------------------
(* Properties of validate_ticker, _get_ticker_symbol and safe_get, checked   *)
(* under UtilSpec.                                                           *)

ExchangeSuffixes == { <<".", "N", "S">>, <<".", "B", "O">> }

EndsInSuffix(s) ==
    \E suffix \in ExchangeSuffixes :
        Len(s) >= 3 /\ <<s[Len(s) - 2], s[Len(s) - 1], s[Len(s)]>> = suffix

\* What is left of a ticker without its exchange suffix.
Remainder(s) == IF EndsInSuffix(s) THEN SubSeq(s, 1, Len(s) - 3) ELSE s

Alphanumeric(s) == \A i \in 1..Len(s) : s[i] \in AlnumChars

\* C22: validate_ticker(t) is true exactly when t is a non-empty string whose
\* remainder after stripping the exchange suffix .NS or .BO is alphanumeric
\* and 1 to 20 characters long; it is false for None, for the empty string,
\* for a remainder with any other character and for a longer remainder.
C22_ValidateTicker ==
    call.op = "validate_ticker" =>
      ( call.result <=>
          /\ call.ticker.type = "str"
          /\ call.ticker.chars # <<>>
          /\ Alphanumeric(Remainder(call.ticker.chars))
          /\ Len(Remainder(call.ticker.chars)) \in 1..20 )

\* The character after each full stop of the string, if any.
AfterStops(s) == { <<s[i + 1], s[i + 2]>> : i \in {k \in 1..(Len(s) - 2) : s[k] = "."} }

\* What holds: the two agree on every input whose remainder holds neither
\* .NS nor .BO.
ValidateTickerWithoutInnerSuffix ==
    ( /\ call.op = "validate_ticker"
      /\ call.ticker.type = "str"
      /\ AfterStops(Remainder(call.ticker.chars)) \cap {<<"N", "S">>, <<"B", "O">>} = {} )
    => C22_ValidateTicker

\* The input without the whitespace around it, in upper case.
TrimmedUpper(s) ==
    LET inside == {k \in 1..Len(s) : s[k] \notin Whitespace}
        first == CHOOSE k \in inside : \A j \in inside : k <= j
        last == CHOOSE k \in inside : \A j \in inside : j <= k
    IN  IF inside = {} THEN <<>>
        ELSE [k \in 1..(last - first + 1) |->
                LET c == s[first + k - 1] IN IF c \in DOMAIN UpperChar THEN UpperChar[c] ELSE c]

\* C23: _get_ticker_symbol, the same in the three builders, upper-cases and
\* trims its input, returns that unchanged when it ends in .NS or .BO and
\* with .NS appended otherwise; the result always ends in .NS or .BO, and
\* normalizing it again returns it unchanged.
C23_TickerNormalization ==
    call.op = "_get_ticker_symbol" =>
      LET trimmed == TrimmedUpper(call.ticker)
      IN  /\ call.symbol = IF EndsInSuffix(trimmed) THEN trimmed
                           ELSE trimmed \o <<".", "N", "S">>
          /\ EndsInSuffix(call.symbol)
          /\ call.again = call.symbol
          /\ call.fundamental = call.symbol
          /\ call.technical = call.symbol

\* A lower-case ticker with its suffix and whitespace around it.
C23_Witness ==
    /\ call.op = "_get_ticker_symbol"
    /\ call.ticker = <<" ", "t", "c", "s", ".", "n", "s", " ">>
    /\ call.symbol = <<"T", "C", "S", ".", "N", "S">>

\* The value at the end of the path of keys, None when a key is absent or
\* the value on the way is not a dictionary.
RECURSIVE Reached(_, _)
Reached(value, keys) ==
    IF keys = <<>> THEN value
    ELSE IF value.type = "dict" /\ Head(keys) \in DOMAIN value.items
    THEN Reached(value.items[Head(keys)], Tail(keys))
    ELSE NoneValue

\* C25: safe_get returns the value reached by following the keys through the
\* nested dictionaries, and the default when a key on the path is absent,
\* its value is None or a value on the way is not a dictionary; a present
\* value that is not None, 0 included, is returned unchanged.
C25_SafeGet ==
    call.op = "safe_get" =>
      LET reached == Reached(call.dictionary, call.keys)
      IN  call.result = IF reached = NoneValue THEN call.default ELSE reached

\* Three keys deep, the value 0, another default.
C25_Witness ==
    /\ call.op = "safe_get"
    /\ call.dictionary = Dict([user |-> Dict([profile |-> Dict([name |-> Num(0)])])])
    /\ call.keys = <<"user", "profile", "name">>
    /\ call.default = Num(7)
    /\ call.result = Num(0)

-----------------------------------------------------------------------------
(* Properties of the three endpoints, checked under ApiSpec.                 *)

\* The input of the request in progress fails validation: the path ticker of
\* /quote and /analyze is rejected by validate_ticker; the list of /compare
\* has fewer than 2 or more than 5 entries, or one of its entries, as the
\* handler reads it (trimmed and in upper case), is rejected.
FailsValidation ==
    CASE http.op \in {"quote", "analyze"} -> ~ validate_ticker(Str(http.input))
      [] http.op = "compare" ->
           \/ Len(http.input) < 2
           \/ Len(http.input) > 5
           \/ \E i \in 1..Len(http.ticker_list) : ~ validate_ticker(Str(http.ticker_list[i]))
      [] OTHER -> FALSE

\* C21: a request whose input fails validation is answered with HTTP 400
\* before any market-data fetch and before any step of the pipeline: no
\* provider call, no cache entry, no builder invoked.
C21_RejectedBeforeFetch ==
    FailsValidation =>
      /\ http.pc = "done"
      /\ http.response.status_code = 400
      /\ http.fetches = <<>>
      /\ http.provider_calls = <<>>
      /\ DOMAIN market_data_cache = {}
      /\ pc = "idle"
      /\ invoked = [market |-> 0, fundamental |-> 0, technical |-> 0, strategy |-> 0]
      /\ result = Unset

\* A /compare request of two entries, the first valid and the second not.
C21_Witness ==
    /\ http.op = "compare"
    /\ Len(http.input) = 2
    /\ validate_ticker(Str(http.ticker_list[1]))
    /\ ~ validate_ticker(Str(http.ticker_list[2]))
    /\ http.response.status_code = 400

-----------------------------------------------------------------------------
(* Properties of the labels of the two analysis builders, checked under      *)
(* BuilderSpec                                                               *)

\* The labels that reach _calculate_aggregate_scores in the present call, each
\* with the delta table that scores it.
ScoredLabels ==
    IF call.op = "assess"
    THEN { <<call.fundamental_signals.profitability, profit_map>>,
           <<call.fundamental_signals.valuation, val_map>>,
           <<call.fundamental_signals.financial_health, health_map>>,
           <<call.fundamental_signals.growth, growth_map>> }
    ELSE IF call.op = "indicators"
    THEN { <<call.technical_signals.trend, trend_map>>,
           <<call.technical_signals.overall_signal, signal_map>> }
    ELSE {}

\* The labels of a builder that stand for "no assessment" and that no delta
\* table lists: .get(label, 0) scores them 0.
UnscoredLabels == {"Unable to assess", "Negative earnings"}

\* C24 as stated: every label that reaches the scoring logic is a key of the
\* delta table that scores it.
C24_LabelsInDeltaTables ==
    \A pair \in ScoredLabels : pair[1] \in DOMAIN pair[2]

\* C24, amended: every label a builder emits is a key of the delta table that
\* scores it or one of the two fixed labels "Unable to assess" and "Negative
\* earnings", which only the valuation and the growth assessment emit and which
\* add nothing to the score; the profitability, financial-health, overall-trend
\* and overall-signal labels are always keys of their tables.
C24_LabelsInEnumerations ==
    /\ \A pair \in ScoredLabels : pair[1] \in DOMAIN pair[2] \union UnscoredLabels
    /\ call.op = "assess" =>
          /\ call.fundamental_signals.profitability \in DOMAIN profit_map
          /\ call.fundamental_signals.financial_health \in DOMAIN health_map
          /\ call.fundamental_signals.growth # "Negative earnings"
          /\ call.fundamental_score =
                clamp_score(50 + profit_map[call.fundamental_signals.profitability]
                               + Get(val_map, call.fundamental_signals.valuation, 0)
                               + health_map[call.fundamental_signals.financial_health]
                               + Get(growth_map, call.fundamental_signals.growth, 0))
    /\ call.op = "indicators" =>
          /\ call.technical_signals.trend \in DOMAIN trend_map
          /\ call.technical_signals.overall_signal \in DOMAIN signal_map

\* A profile without P/E and without revenue growth: both labels are "Unable to
\* assess" and the score is made of the two other deltas only.
C24_Witness ==
    /\ call.op = "assess"
    /\ call.info.trailingPE = None
    /\ call.info.revenueGrowth = None
    /\ call.fundamental_signals.profitability = "Strong"
    /\ call.fundamental_signals.valuation = "Unable to assess"
    /\ call.fundamental_signals.financial_health = "Healthy"
    /\ call.fundamental_signals.growth = "Unable to assess"
    /\ call.fundamental_score = 80

\* The debt-to-equity figure the provider gave in the present call, the figure
\* the fundamental builder reports for it (the provider's divided by 100) and
\* the risk factors the strategy builder derives.
RawDebtToEquity == call.info.debtToEquity
ReportedDebtToEquity == call.fundamental.data.financial_health.debt_to_equity
HighDebtReported ==
    \E i \in 1..Len(call.risk_assessment.factors) :
        call.risk_assessment.factors[i] = <<"High debt levels">>

\* C30: the debt checks read one debt-to-equity figure in one unit: the risk
\* factor "High debt levels" (reported debt_to_equity, the provider's figure
\* divided by 100, above 1) never comes with a financial-health label of Strong
\* or Healthy (provider's figure under 50 or under 100) for the same data.
C30_DebtChecksConsistent ==
    call.op = "assess" =>
      /\ HighDebtReported = (RawDebtToEquity # None /\ ReportedDebtToEquity > 100)
      /\ RawDebtToEquity # None =>
           ReportedDebtToEquity = RoundHalfEven(RawDebtToEquity, 100)
      /\ call.fundamental.data.financial_health.assessment \in {"Strong", "Healthy"}
           => /\ RawDebtToEquity < 10000
              /\ ~ HighDebtReported

\* A debt-to-equity of 102 with a current ratio of 2: reported as 1.02, the
\* risk factor is there and the financial health is no better than Moderate.
C30_Witness ==
    /\ call.op = "assess"
    /\ RawDebtToEquity = 10200
    /\ call.info.currentRatio = 200
    /\ ReportedDebtToEquity = 102
    /\ HighDebtReported
    /\ call.fundamental.data.financial_health.assessment = "Moderate"

=============================================================================
